---- MODULE Spec2Model ----
(***************************************************************************)
(* Model of the incremental Top-N stream operator                          *)
(* (rust/stream/src/executor/top_n.rs): the three managed regions Low,     *)
(* Mid and High, apply_chunk row by row, and the barrier path              *)
(* flush_data -> flush_inner.                                              *)
(***************************************************************************)
EXTENDS Integers, Naturals, Sequences, FiniteSets, TLC

\* ---------------------------------------------------------------- bounds
NumKeys == 3
MaxOffset == 2
MaxLimit == 2
MaxChunkLen == 2
MaxEpoch == 1

\* ------------------------------------------------------- program constants
\* usize::MAX stands for "no limit"; any value above every reachable count.
USIZE_MAX == 2147483647

\* Option<usize>: None is <<>>, Some(n) is <<n>>.
NoLimit == <<>>
Some(n) == <<n>>

Regions == {"l/", "m/", "h/"}

VARIABLES
    offset,           \* TopNExecutor.offset
    limit,            \* TopNExecutor.limit (NoLimit or Some(n))
    first_execution,  \* TopNExecutor.first_execution
    low,              \* managed_lowest_state: rows of rank [0, offset)
    mid,              \* managed_middle_state: rows of rank [offset, offset+limit)
    high,             \* managed_highest_state: rows of rank [offset+limit, inf)
    pending,          \* per region, the writes buffered since the last flush
    store,            \* per region, the rows committed to the state store
    written,          \* regions whose non-empty batch the running flush_inner has committed so far
    fills,            \* how many times the caches were filled from the store
    source,           \* "MockSource" (scripted messages) or "Any"
    input,            \* MockSource: the messages not yet delivered
    live,             \* the rows live according to the input consumed so far
    chunk,            \* MockSource: rows of the chunk being applied, not yet processed
    row_idx,          \* rows of the chunk being applied that have been processed
    new_ops,          \* new_ops/new_rows of the running apply_chunk
    applied,          \* the downstream set: every emitted chunk applied to {}
    cur_epoch,        \* epoch of the last barrier received
    pc                \* position of the operator task

topn_vars == <<offset, limit, first_execution, low, mid, high, pending, store, written,
               fills, source, input, live, chunk, row_idx, new_ops, applied, cur_epoch, pc>>

\* State of the stream manager (rust/stream/src/task/stream_manager.rs).
VARIABLES
    actors,           \* StreamManagerCore.actors: actor id -> host
    fragments,        \* StreamManagerCore.fragments: ids of the installed fragment plans
    channel_pool,     \* SharedContext.channel_pool: edge -> which ends are still parked
    receivers_for_exchange_service,  \* SharedContext.receivers_for_exchange_service: edges
    handles,          \* StreamManagerCore.handles: actor id -> spawned task
    tasks,            \* every task spawned by build_fragment, in spawn order
    sender_placeholder,  \* StreamManagerCore.sender_placeholder: per sender, its barrier channel
    mock_source,      \* StreamManagerCore.mock_source: is the receiver still parked
    graph,            \* the dataflow graph the fragment plans are cut from
    last              \* the last manager call: operation and outcome

mgr_vars == <<actors, fragments, channel_pool, receivers_for_exchange_service, handles,
              tasks, sender_placeholder, mock_source, graph, last>>

\* State of the running dataflow: the actors that build_fragment spawned.
VARIABLES
    chan,             \* per edge, the messages in its channel
    blocked,          \* per actor, the inputs that have delivered the barrier being aligned
    delivered,        \* the messages that have reached the end of the dataflow
    src_barriers,     \* per source, the barriers it has emitted
    produced,         \* the number of chunks the sources have emitted
    sent,             \* the number of send_barrier and send_stop_barrier calls
    stop_sent,        \* a send_stop_barrier call has returned
    wait              \* position of the wait_all call: "none", "waiting" or "returned"

flow_vars == <<chan, blocked, delivered, src_barriers, produced, sent, stop_sent, wait>>

\* State added by the manager's wait_all, its state-store selection and its executor
\* ids, and by the managed Top-N states behind the three regions.
VARIABLES
    joining,          \* wait_all: the handles taken out of the table and how far the loop is
    state_store_arg,  \* StreamManager::new: the state_store argument (None or a string)
    state_store,      \* StreamManagerCore.state_store: the backend selected
    next_mock_executor_id,  \* StreamManagerCore.next_mock_executor_id (u32)
    executors,        \* the stateful executors built so far: kind and keyspace prefix
    cache_size,       \* ManagedTopNState: the cache_size the executor was built with
    cache,            \* ManagedTopNState.top_n: per region, the rows held in memory
    total_count       \* ManagedTopNState.total_count: per region

wait_vars == <<joining>>
store_vars == <<state_store_arg, state_store>>
id_vars == <<next_mock_executor_id, executors>>
cache_vars == <<cache_size, cache, total_count>>
ext_vars == <<wait_vars, store_vars, id_vars, cache_vars>>

vars == <<topn_vars, mgr_vars, flow_vars, ext_vars>>

\* ------------------------------------------------------------------ rows
\* A row is <<c0, c1>>; the primary key is (c0, c1), both ascending.
\* The rows of the source "Any": <<1, 1>>, <<1, 0>>, <<2, 1>>, <<2, 0>>, ...
Rows == {<<(i + 1) \div 2, i % 2>> : i \in 1..NumKeys}

\* OrderedRow comparison with order_types = [Ascending, Ascending].
RowLess(a, b) == a[1] < b[1] \/ (a[1] = b[1] /\ a[2] < b[2])

MaxRow(S) == CHOOSE x \in S : \A y \in S : y = x \/ RowLess(y, x)
MinRow(S) == CHOOSE x \in S : \A y \in S : y = x \/ RowLess(x, y)

\* ---------------------------------------------------------- managed state
TotalCount(S) == Cardinality(S)

\* ManagedTopNState<TOP_N_MAX>::top_element / ManagedTopNBottomNState::top_element:
\* None on an empty state, else the largest row.
HasTop(S) == S # {}

NoWrites == [k \in {} |-> "put"]

PendPut(p, r, k) == [p EXCEPT ![r] = [x \in (DOMAIN p[r]) \cup {k} |-> IF x = k THEN "put" ELSE p[r][x]]]
PendDel(p, r, k) == [p EXCEPT ![r] = [x \in (DOMAIN p[r]) \cup {k} |-> IF x = k THEN "del" ELSE p[r][x]]]

PendingEmpty(r) == DOMAIN pending[r] = {}

\* ManagedTopNState::flush: commit the pending batch, then clear it.
Committed(r) == (store[r] \cup {k \in DOMAIN pending[r] : pending[r][k] = "put"})
                    \ {k \in DOMAIN pending[r] : pending[r][k] = "del"}

\* ------------------------------------------------------------ messages
ChunkMsg(rows) == [kind |-> "Chunk", rows |-> rows]
BarrierMsg(e) == [kind |-> "Barrier", epoch |-> e]

InsertOps == {"Insert", "UpdateInsert"}
DeleteOps == {"Delete", "UpdateDelete"}

\* The input rows of the model: an insert or a delete of a row.
InputRows == {"Insert", "Delete"} \X Rows

\* The live rows after one row of input.
LiveAfter(in, S) == IF in[1] \in InsertOps THEN S \cup {in[2]} ELSE S \ {in[2]}

\* An input row inserts a fresh key or deletes a live key.
ValidRow(in, S) == IF in[1] \in InsertOps THEN in[2] \notin S ELSE in[2] \in S

\* The consumer's set after applying emitted ops to it.
RECURSIVE ApplyOps(_, _)
ApplyOps(ops, S) ==
    IF ops = <<>> THEN S
    ELSE ApplyOps(Tail(ops), IF Head(ops)[1] \in InsertOps THEN S \cup {Head(ops)[2]}
                                                            ELSE S \ {Head(ops)[2]})

\* tests::test_top_n_executor: chunk1..chunk4, each followed by a barrier of epoch 0.
TestChunk1 == << <<"Insert", <<1, 0>> >>, <<"Insert", <<2, 1>> >>, <<"Insert", <<3, 2>> >>,
                 <<"Insert", <<10, 3>> >>, <<"Insert", <<9, 4>> >>, <<"Insert", <<8, 5>> >> >>
TestChunk2 == << <<"Insert", <<7, 6>> >>, <<"Delete", <<3, 2>> >>, <<"Delete", <<1, 0>> >>,
                 <<"Insert", <<5, 7>> >>, <<"Delete", <<2, 1>> >>, <<"Insert", <<11, 8>> >> >>
TestChunk3 == << <<"Insert", <<6, 9>> >>, <<"Insert", <<12, 10>> >>, <<"Insert", <<13, 11>> >>,
                 <<"Insert", <<14, 12>> >> >>
TestChunk4 == << <<"Delete", <<5, 7>> >>, <<"Delete", <<6, 9>> >>, <<"Delete", <<11, 8>> >> >>
TestMessages == << ChunkMsg(TestChunk1), BarrierMsg(0), ChunkMsg(TestChunk2), BarrierMsg(0),
                   ChunkMsg(TestChunk3), BarrierMsg(0), ChunkMsg(TestChunk4), BarrierMsg(0) >>

\* ------------------------------------------------------------ the operator
\* create_nodes_inner, TopNNode: the limit of the plan node, where 0 says "no limit".
\* Faulty variant: the limit of the plan node is passed on as it is.
TopNNodeLimit_Verbatim(n) == Some(n)
TopNNodeLimit(n) == IF n = 0 THEN NoLimit ELSE Some(n)

\* TopNExecutor::new, with an empty keyspace and total_count = (0, 0, 0).
Init ==
    /\ \/ /\ source = "Any"
          /\ offset \in 0..MaxOffset
          /\ limit \in {TopNNodeLimit(n) : n \in 0..MaxLimit}
          /\ input = <<>>
       \/ /\ source = "MockSource"
          /\ offset = 3
          /\ limit = Some(4)
          /\ input = TestMessages
    /\ first_execution = FALSE
    /\ low = {}
    /\ mid = {}
    /\ high = {}
    /\ pending = [r \in Regions |-> NoWrites]
    /\ store = [r \in Regions |-> {}]
    /\ written = {}
    /\ fills = 0
    /\ live = {}
    /\ chunk = <<>>
    /\ row_idx = 0
    /\ new_ops = <<>>
    /\ applied = {}
    /\ cur_epoch = 0
    /\ pc = "idle"

NumLimit == IF limit = NoLimit THEN USIZE_MAX ELSE limit[1]

\* The conditions of the insert path.
\* Faulty variant: the Low region is taken to have room for offset + 1 rows.
InsertBelowOffset_OffByOne == TotalCount(low) <= offset
InsertBelowOffset == TotalCount(low) < offset
\* Faulty variant: the comparison with the top of Low is the wrong way round.
SmallerThanLowTop_Flipped(k) == RowLess(MaxRow(low), k)
SmallerThanLowTop(k) == RowLess(k, MaxRow(low))
\* Faulty variant: Mid is taken to have room whatever the limit.
MiddleHasRoom_Always == TRUE
MiddleHasRoom == TotalCount(mid) < NumLimit
SmallerThanMidTop(k) == RowLess(k, MaxRow(mid))

\* The conditions of the delete path.
\* Faulty variant: no delete is taken to be a delete from High.
DeleteFromHighest_Never(k) == FALSE
DeleteFromHighest(k) == TotalCount(mid) = NumLimit /\ RowLess(MaxRow(mid), k)
DeleteFromMiddle(k) == TotalCount(low) = offset /\ RowLess(MaxRow(low), k)
\* Faulty variant: Mid is refilled from High only when it is full.
PromoteAfterLowDelete_NoMinusOne(m) == TotalCount(m) = NumLimit /\ TotalCount(high) > 0
PromoteAfterLowDelete(m) == TotalCount(m) = NumLimit - 1 /\ TotalCount(high) > 0

\* The op tags the delete path emits for a row that leaves Mid.
\* Faulty variant: a row deleted from Mid is emitted as a plain Delete.
MidDeleteOp_Delete == "Delete"
MidDeleteOp == "UpdateDelete"
\* Faulty variant: the row demoted from Mid to Low is emitted with an insert tag.
MidDemoteOp_Insert == "Insert"
MidDemoteOp == "UpdateDelete"

Result(l, m, h, p, o, panic) ==
    [low |-> l, mid |-> m, high |-> h, pending |-> p, new_ops |-> o, panic |-> panic]

\* Op::Insert | Op::UpdateInsert
InsertRow(k) ==
    IF InsertBelowOffset
    THEN Result(low \cup {k}, mid, high, PendPut(pending, "l/", k), new_ops, FALSE)
    ELSE IF ~HasTop(low)
    THEN Result(low, mid, high, pending, new_ops, TRUE)
    ELSE
      LET swap == SmallerThanLowTop(k)
          top == MaxRow(low)
          e_mid == IF swap THEN top ELSE k
          low1 == IF swap THEN (low \ {top}) \cup {k} ELSE low
          p1 == IF swap THEN PendPut(PendDel(pending, "l/", top), "l/", k) ELSE pending
      IN
      IF MiddleHasRoom
      THEN Result(low1, mid \cup {e_mid}, high, PendPut(p1, "m/", e_mid),
                  Append(new_ops, <<"Insert", e_mid>>), FALSE)
      ELSE IF ~HasTop(mid)
      THEN Result(low1, mid, high, p1, new_ops, TRUE)
      ELSE
        LET swap2 == SmallerThanMidTop(e_mid)
            mtop == MaxRow(mid)
            e_high == IF swap2 THEN mtop ELSE e_mid
            mid1 == IF swap2 THEN (mid \ {mtop}) \cup {e_mid} ELSE mid
            p2 == IF swap2 THEN PendPut(PendDel(p1, "m/", mtop), "m/", e_mid) ELSE p1
            ops2 == IF swap2 THEN new_ops \o << <<"Delete", mtop>>, <<"Insert", e_mid>> >>
                              ELSE new_ops
        IN Result(low1, mid1, high \cup {e_high}, PendPut(p2, "h/", e_high), ops2, FALSE)

\* Op::Delete | Op::UpdateDelete
DeleteRow(k) ==
    IF TotalCount(mid) = NumLimit /\ ~HasTop(mid)
    THEN Result(low, mid, high, pending, new_ops, TRUE)
    ELSE IF DeleteFromHighest(k)
    THEN Result(low, mid, high \ {k}, PendDel(pending, "h/", k), new_ops, FALSE)
    ELSE IF TotalCount(low) = offset /\ ~HasTop(low)
    THEN Result(low, mid, high, pending, new_ops, TRUE)
    ELSE IF DeleteFromMiddle(k)
    THEN
      LET mid1 == mid \ {k}
          p1 == PendDel(pending, "m/", k)
          ops1 == Append(new_ops, <<MidDeleteOp, k>>)
      IN
      IF TotalCount(high) > 0
      THEN LET h == MinRow(high)
           IN Result(low, mid1 \cup {h}, high \ {h}, PendPut(PendDel(p1, "h/", h), "m/", h),
                     Append(ops1, <<"Insert", h>>), FALSE)
      ELSE Result(low, mid1, high, p1, ops1, FALSE)
    ELSE
      LET low1 == low \ {k}
          p1 == PendDel(pending, "l/", k)
          demote == TotalCount(mid) > 0
          m == MinRow(mid)
          low2 == IF demote THEN low1 \cup {m} ELSE low1
          mid2 == IF demote THEN mid \ {m} ELSE mid
          p2 == IF demote THEN PendPut(PendDel(p1, "m/", m), "l/", m) ELSE p1
          ops2 == IF demote THEN Append(new_ops, <<MidDemoteOp, m>>) ELSE new_ops
      IN
      IF PromoteAfterLowDelete(mid2)
      THEN LET h == MinRow(high)
           IN Result(low2, mid2 \cup {h}, high \ {h}, PendPut(PendDel(p2, "h/", h), "m/", h),
                     Append(ops2, <<"Insert", h>>), FALSE)
      ELSE Result(low2, mid2, high, p2, ops2, FALSE)

\* next() receives a chunk: the head of apply_chunk, up to the row loop.
\* The input chunks carry no visibility bitmap, so chunk.compact() keeps every row.
StartChunk(c) ==
    /\ IF first_execution
       THEN fills' = fills + 1
       ELSE fills' = fills
    /\ first_execution' = FALSE
    /\ chunk' = c
    /\ row_idx' = 0
    /\ new_ops' = <<>>
    /\ pc' = "rows"
    /\ UNCHANGED <<mgr_vars, flow_vars, ext_vars, offset, limit, low, mid, high, pending, store, written, source, live,
                   applied, cur_epoch>>

ReceiveChunk ==
    /\ pc = "idle"
    /\ \/ /\ source = "Any"
          /\ StartChunk(<<>>)
          /\ UNCHANGED input
       \/ /\ source = "MockSource"
          /\ input # <<>>
          /\ Head(input).kind = "Chunk"
          /\ StartChunk(Head(input).rows)
          /\ input' = Tail(input)

\* One iteration of the row loop of apply_chunk, on the input row in.
ApplyRow(in) ==
    /\ LET r == IF in[1] \in InsertOps THEN InsertRow(in[2]) ELSE DeleteRow(in[2])
       IN /\ low' = r.low
          /\ mid' = r.mid
          /\ high' = r.high
          /\ pending' = r.pending
          /\ new_ops' = r.new_ops
          /\ pc' = IF r.panic THEN "panicked" ELSE "rows"
    /\ live' = LiveAfter(in, live)
    /\ row_idx' = row_idx + 1
    /\ UNCHANGED <<mgr_vars, flow_vars, ext_vars, offset, limit, first_execution, store, written, fills, source, input,
                   applied, cur_epoch>>

\* The rows of a chunk of the source "Any" are drawn one by one, MaxChunkLen at most.
ProcessRow ==
    /\ pc = "rows"
    /\ \/ /\ source = "Any"
          /\ row_idx < MaxChunkLen
          /\ \E in \in InputRows : ValidRow(in, live) /\ ApplyRow(in)
          /\ UNCHANGED chunk
       \/ /\ source = "MockSource"
          /\ chunk # <<>>
          /\ ApplyRow(Head(chunk))
          /\ chunk' = Tail(chunk)

\* The tail of apply_chunk: the output chunk is built from new_ops/new_rows and yielded;
\* the consumer applies it.
EmitChunk ==
    /\ pc = "rows"
    /\ source = "MockSource" => chunk = <<>>
    /\ applied' = ApplyOps(new_ops, applied)
    /\ new_ops' = <<>>
    /\ row_idx' = 0
    /\ pc' = "idle"
    /\ UNCHANGED <<mgr_vars, flow_vars, ext_vars, offset, limit, first_execution, low, mid, high, pending, store, written,
                   fills, source, input, live, chunk, cur_epoch>>

\* next() receives a barrier and calls flush_data(epoch).
ReceiveBarrier ==
    /\ pc = "idle"
    /\ \/ /\ source = "Any"
          /\ cur_epoch < MaxEpoch
          /\ cur_epoch' = cur_epoch + 1
          /\ UNCHANGED input
       \/ /\ source = "MockSource"
          /\ input # <<>>
          /\ Head(input).kind = "Barrier"
          /\ cur_epoch' = Head(input).epoch
          /\ input' = Tail(input)
    /\ pc' = "flush_high"
    /\ UNCHANGED <<mgr_vars, flow_vars, ext_vars, offset, limit, first_execution, low, mid, high, pending, store, written, fills,
                   source, live, chunk, row_idx, new_ops, applied>>

\* ManagedTopNState::flush(epoch) of one region, then on to the next step.
FlushRegion(r, next) ==
    /\ store' = [store EXCEPT ![r] = Committed(r)]
    /\ pending' = [pending EXCEPT ![r] = NoWrites]
    /\ written' = IF PendingEmpty(r) THEN written ELSE written \cup {r}
    /\ pc' = next
    /\ UNCHANGED <<mgr_vars, flow_vars, ext_vars, offset, limit, first_execution, low, mid, high, fills, source, input,
                   live, chunk, row_idx, new_ops, applied, cur_epoch>>

\* flush_inner: High, then Mid, then Low.
FlushHigh == pc = "flush_high" /\ FlushRegion("h/", "flush_mid")
FlushMid == pc = "flush_mid" /\ FlushRegion("m/", "flush_low")
\* Faulty variant: flush_inner returns without flushing Low.
FlushLow_Skipped ==
    /\ pc = "flush_low"
    /\ pc' = "forward"
    /\ UNCHANGED <<mgr_vars, flow_vars, ext_vars, offset, limit, first_execution, low, mid, high, pending, store, written,
                   fills, source, input, live, chunk, row_idx, new_ops, applied, cur_epoch>>
FlushLow == pc = "flush_low" /\ FlushRegion("l/", "forward")

\* A state-store write of flush_inner fails: `?` ends next() with the error.
FlushFail ==
    /\ pc \in {"flush_high", "flush_mid", "flush_low"}
    /\ pc' = "failed"
    /\ UNCHANGED <<mgr_vars, flow_vars, ext_vars, offset, limit, first_execution, low, mid, high, pending, store, written,
                   fills, source, input, live, chunk, row_idx, new_ops, applied, cur_epoch>>

\* next() yields the barrier once flush_data has returned.
ForwardBarrier ==
    /\ pc = "forward"
    /\ written' = {}
    /\ pc' = "idle"
    /\ UNCHANGED <<mgr_vars, flow_vars, ext_vars, offset, limit, first_execution, low, mid, high, pending, store,
                   fills, source, input, live, chunk, row_idx, new_ops, applied, cur_epoch>>

\* The actor task is aborted while flush_inner awaits the state store.
Abort ==
    /\ pc \in {"flush_high", "flush_mid", "flush_low"}
    /\ pc' = "aborted"
    /\ UNCHANGED <<mgr_vars, flow_vars, ext_vars, offset, limit, first_execution, low, mid, high, pending, store, written,
                   fills, source, input, live, chunk, row_idx, new_ops, applied, cur_epoch>>

\* ---------------------------------------------------------- stream manager
\* Bounds of the manager model.
MaxTasks == 2
MaxBarriers == 2
MaxRequestLen == 2

\* Upstream id 0 of a merge node stands for the mock source.
MOCK_SOURCE_ID == 0

\* The requests are cut from a dataflow graph: per fragment id,
\* MergeNode.upstream_fragment_id of its leaf (<<>> when the leaf is a TableSourceNode),
\* StreamFragment.downstream_fragment_id, and the host of its ActorInfo ("local" is
\* the address of this node).
\* Fragment 1 feeds fragment 2; the leaf of fragment 1 has the upstreams `first`.
ChainGraph(first, hosts) ==
    [ids |-> {1, 2}, ups |-> <<first, <<1>>>>, downs |-> <<<<2>>, <<>>>>, host |-> hosts]
\* Fragments 1 and 2 read a table source each and feed the merge node of fragment 3,
\* the end of the dataflow.
FanInGraph ==
    [ids |-> {1, 2, 3},
     ups |-> <<<<>>, <<>>, <<1, 2>>>>,
     downs |-> <<<<3>>, <<3>>, <<>>>>,
     host |-> <<"local", "local", "local">>]

\* The graphs of the manager runs: both actors on this node, with either leaf, and one
\* of the actors on another node.
MgrGraphs ==
    {ChainGraph(first, <<"local", "local">>) : first \in {<<>>, <<MOCK_SOURCE_ID>>}}
    \cup {ChainGraph(<<>>, hosts) : hosts \in {<<"local", "remote">>, <<"remote", "local">>}}

Downstreams(g, i) == g.downs[i]
Upstreams(g, i) == g.ups[i]

\* The leaf of fragment i is a TableSourceNode.
HasTableSource(g, i) == Upstreams(g, i) = <<>>

\* HashMap::insert and HashMap::retain on a function with a finite domain.
Put(f, k, v) == [x \in (DOMAIN f) \cup {k} |-> IF x = k THEN v ELSE f[x]]
Retain(f, S) == [x \in (DOMAIN f) \cap S |-> f[x]]
EmptyMap == [x \in {} |-> x]

\* A channel just created: both ends parked as Some.
NewChannel == [tx |-> TRUE, rx |-> TRUE]

\* StreamManagerCore::new: every table empty, the mock source channel parked.
StreamManagerNew ==
    /\ actors = EmptyMap
    /\ fragments = {}
    /\ channel_pool = EmptyMap
    /\ receivers_for_exchange_service = {}
    /\ handles = EmptyMap
    /\ tasks = <<>>
    /\ sender_placeholder = <<>>
    /\ mock_source = TRUE
    /\ last = [op |-> "new", res |-> "Ok"]

\* No dataflow runs.
FlowIdle ==
    /\ chan = EmptyMap
    /\ blocked = EmptyMap
    /\ delivered = <<>>
    /\ src_barriers = <<>>
    /\ produced = 0
    /\ sent = 0
    /\ stop_sent = FALSE
    /\ wait = "none"

\* No wait_all runs.
WaitIdle == joining = [order |-> <<>>, pos |-> 1, core |-> FALSE]

\* No state store was asked for.
StoreIdle == state_store_arg = <<>> /\ state_store = [backend |-> "unset", arg |-> <<>>]

\* StreamManagerCore::new: the id counter starts at 0; no stateful executor yet.
IdsIdle == next_mock_executor_id = <<0, 0>> /\ executors = <<>>

\* The managed states are not looked into: every region is held in memory whole.
CacheIdle ==
    /\ cache_size = NoLimit
    /\ cache = [r \in Regions |-> {}]
    /\ total_count = [r \in Regions |-> 0]

ExtIdle == WaitIdle /\ StoreIdle /\ IdsIdle /\ CacheIdle

\* The manager left alone while the Top-N operator runs.
MgrIdle == StreamManagerNew /\ graph = ChainGraph(<<>>, <<"local", "local">>) /\ FlowIdle

Next ==
    \/ ReceiveChunk
    \/ ProcessRow
    \/ EmitChunk
    \/ ReceiveBarrier
    \/ FlushHigh
    \/ FlushMid
    \/ FlushLow
    \/ FlushFail
    \/ ForwardBarrier
    \/ Abort

\* The Top-N operator runs; the manager is left as constructed.
TopNInit == Init /\ MgrIdle /\ ExtIdle

Spec == TopNInit /\ [][Next]_vars

\* ------------------------------------------------------------ properties
TypeOK ==
    /\ offset \in Nat
    /\ limit = NoLimit \/ (Len(limit) = 1 /\ limit[1] \in Nat)
    /\ first_execution \in BOOLEAN
    /\ written \subseteq Regions
    /\ fills \in Nat
    /\ row_idx \in Nat
    /\ pc \in {"idle", "rows", "flush_high", "flush_mid", "flush_low", "forward",
               "panicked", "failed", "aborted"}

Content(r) == IF r = "l/" THEN low ELSE IF r = "m/" THEN mid ELSE high

\* sort(S)[offset : offset + limit]: the rows of S with offset <= rank < offset + limit.
Rank(x, S) == Cardinality({y \in S : RowLess(y, x)})
TopNOf(S) == {x \in S : Rank(x, S) >= offset /\ Rank(x, S) - offset < NumLimit}

\* apply_chunk is at the point where it returns its output chunk.
AtEmit == pc = "rows" /\ (source = "MockSource" => chunk = <<>>)

\* C1: Top-N correctness. After each input chunk (apply_chunk has returned, or has
\* panicked on it), the emitted ops applied to the empty set give
\* sort(S_current)[offset : offset + limit], for every offset and every limit.
C1_TopNCorrect == pc \in {"idle", "panicked"} => applied = TopNOf(live)

\* C2: after every input row, the ops emitted so far (the chunks already yielded and
\* the ops collected by the running apply_chunk) applied to the empty set give
\* exactly the content of Mid.
C2_OutputIsMid == pc \in {"rows", "idle"} => ApplyOps(new_ops, applied) = mid

\* A row has entered Mid and a row has left Mid in the running chunk.
C2_Witness ==
    /\ pc = "rows"
    /\ mid # {}
    /\ \E i \in DOMAIN new_ops : new_ops[i][1] \in DeleteOps
    /\ \E i \in DOMAIN new_ops : new_ops[i][1] \in InsertOps

\* C3: at every chunk boundary every key of Low is smaller than every key of Mid and
\* every key of Mid is smaller than every key of High.
C3_RegionsOrdered ==
    pc = "idle" => /\ \A a \in low : \A b \in mid : RowLess(a, b)
                   /\ \A b \in mid : \A c \in high : RowLess(b, c)

\* A chunk boundary with rows in all three regions.
C3_Witness == pc = "idle" /\ low # {} /\ mid # {} /\ high # {}

\* C4: at every chunk boundary |Low| <= offset and |Mid| <= limit.
C4_RegionSizes ==
    pc = "idle" => TotalCount(low) <= offset /\ TotalCount(mid) <= NumLimit

\* A chunk boundary where Low and Mid are full and a row has overflowed into High.
C4_Witness ==
    /\ pc = "idle"
    /\ offset > 0
    /\ TotalCount(low) = offset
    /\ TotalCount(mid) = NumLimit
    /\ high # {}

\* C5: the regions are filled greedily. At every chunk boundary Mid is non-empty only
\* if |Low| = offset, and High is non-empty only if |Mid| = limit, also after deletes.
C5_GreedyFill ==
    pc = "idle" => /\ mid # {} => TotalCount(low) = offset
                   /\ high # {} => TotalCount(mid) = NumLimit

\* A chunk boundary after deletes have refilled Low from Mid and Mid from High.
C5_Witness ==
    /\ pc = "idle"
    /\ \E k \in low : k \in DOMAIN pending["m/"] /\ pending["m/"][k] = "del"
    /\ \E k \in mid : k \in DOMAIN pending["h/"] /\ pending["h/"][k] = "del"

\* The output chunks tests::test_top_n_executor expects, as <<op, c0>>.
TestExpected ==
    << << <<"Insert", 10>>, <<"Insert", 9>>, <<"Insert", 8>> >>,
       << <<"Insert", 7>>, <<"UpdateDelete", 7>>, <<"UpdateDelete", 8>>, <<"Insert", 8>>,
          <<"UpdateDelete", 8>>, <<"Insert", 11>> >>,
       << <<"Insert", 8>> >>,
       << <<"UpdateDelete", 8>>, <<"Insert", 12>>, <<"UpdateDelete", 9>>, <<"Insert", 13>>,
          <<"UpdateDelete", 11>>, <<"Insert", 14>> >> >>

OpsAndC0(ops) == [i \in DOMAIN ops |-> <<ops[i][1], ops[i][2][1]>>]

\* C6: on the test's input (offset 3, limit 4, chunk1..chunk4 each followed by a
\* barrier) next() never panics, answers each chunk with one chunk and each barrier
\* with one barrier, and the n-th output chunk carries the expected ops and c0.
C6_TestScenario ==
    source = "MockSource" =>
        /\ pc # "panicked"
        /\ AtEmit => OpsAndC0(new_ops) = TestExpected[(Len(TestMessages) - Len(input) + 1) \div 2]
        /\ pc \in {"rows"} => Len(input) % 2 = 1
        /\ pc \in {"flush_high", "flush_mid", "flush_low", "forward"} => Len(input) % 2 = 0

\* The test has run to its end: all eight messages were answered.
C6_Witness == source = "MockSource" /\ pc = "idle" /\ input = <<>>

\* C7: when the epoch-E barrier is forwarded, every mutation of Low, Mid and High made
\* under epoch E is in the state store: no write is pending and the store holds
\* exactly the rows of each region.
C7_FlushBeforeForward ==
    pc = "forward" => \A r \in Regions : PendingEmpty(r) /\ store[r] = Content(r)

\* A barrier is about to be forwarded after all three regions had writes to flush.
C7_Witness == pc = "forward" /\ written = Regions

\* C8: flush atomicity. When flush_inner ends by a failed write or by an abort, either
\* every epoch-E write of the operator is in the store or none is.
C8_FlushAtomic ==
    pc \in {"failed", "aborted"} => written = {} \/ \A r \in Regions : PendingEmpty(r)

\* C9: the caches are filled from the store exactly once, on the first chunk:
\* first_execution is true until then, and false afterwards.
C9_FirstChunkFill ==
    /\ fills <= 1
    /\ pc = "rows" => fills = 1 /\ ~first_execution

\* C10: in every emitted chunk each UpdateDelete is immediately followed by an
\* UpdateInsert.
C10_UpdatePairs ==
    AtEmit => \A i \in DOMAIN new_ops :
                  new_ops[i][1] = "UpdateDelete" =>
                      i < Len(new_ops) /\ new_ops[i + 1][1] = "UpdateInsert"

\* The c0 values of a region.
C0Of(S) == {k[1] : k \in S}

\* The n-th chunk of the test has been applied and n - 1 barriers answered.
AfterTestChunk(n) ==
    source = "MockSource" /\ AtEmit /\ Len(TestMessages) - Len(input) = 2 * n - 1

RegionsByC0 == [l |-> C0Of(low), m |-> C0Of(mid), h |-> C0Of(high)]

\* The regions the comments of the test give after each chunk.
TestRegionsCommented ==
    << [l |-> {1, 2, 3}, m |-> {8, 9, 10}, h |-> {}],
       [l |-> {5, 7, 8}, m |-> {9, 10, 11}, h |-> {}],
       [l |-> {5, 6, 7}, m |-> {8, 9, 10, 11}, h |-> {12, 13, 14}],
       [l |-> {7, 8, 9}, m |-> {10, 13, 14}, h |-> {}] >>

\* The same with row 12, which chunk4 does not delete, kept in Mid.
TestRegions == [TestRegionsCommented EXCEPT ![4].m = {10, 12, 13, 14}]

C30_SilentRows ==
    [][row_idx' = row_idx + 1 =>
          /\ \A k \in live' \ live :
                 /\ Cardinality(low) < offset => new_ops' = new_ops /\ mid' = mid
                 /\ (/\ Cardinality(low) = offset /\ low # {}
                     /\ Cardinality(mid) = NumLimit
                     /\ RowLess(MaxRow(mid), k))
                    => new_ops' = new_ops /\ mid' = mid /\ high' = high \cup {k}
          /\ \A k \in live \ live' :
                 k \in high => new_ops' = new_ops /\ mid' = mid /\ low' = low]_vars

\* The first row of a chunk was answered with no op, Low and Mid hold rows, and a row
\* that was in no region but High since the last flush was deleted from High.
C30_Witness ==
    /\ pc = "rows" /\ row_idx = 1 /\ new_ops = <<>>
    /\ low # {} /\ mid # {}
    /\ \E k \in DOMAIN pending["h/"] :
           /\ pending["h/"][k] = "del" /\ k \notin live
           /\ k \notin DOMAIN pending["m/"] /\ k \notin DOMAIN pending["l/"]

\* C31: the executor never runs with limit = Some(0), so num_limit - 1 in the delete
\* path does not underflow; and with no limit Mid takes every candidate and High stays
\* empty.
C31_NoLimitZero ==
    /\ limit # Some(0)
    /\ NumLimit >= 1
    /\ limit = NoLimit => high = {} /\ TotalCount(mid) < NumLimit

\* With no limit, a row was deleted from Low and Mid has given its smallest row to Low
\* (the branch that computes num_limit - 1), with rows left in Mid.
C31_Witness ==
    /\ limit = NoLimit /\ pc = "rows" /\ mid # {}
    /\ \E k \in DOMAIN pending["l/"] : pending["l/"][k] = "del" /\ k \notin live
    /\ \E i \in DOMAIN new_ops : new_ops[i][1] = MidDemoteOp

\* C33: row conservation. In every state every live row is in exactly one of Low, Mid
\* and High, no other row is in a region, and the sizes add up to the number of live
\* rows.
C33_RowConservation ==
    /\ low \cup mid \cup high = live
    /\ low \cap mid = {} /\ low \cap high = {} /\ mid \cap high = {}
    /\ TotalCount(low) + TotalCount(mid) + TotalCount(high) = Cardinality(live)

\* C34: with offset = 0 no input row makes apply_chunk fail.
C34_OffsetZeroNeverFails == offset = 0 => pc # "panicked"

\* ------------------------------------------------- stream manager: operations
\* The tables of StreamManagerCore and SharedContext as one value, so that the loops of
\* an operation can be composed.
Core ==
    [actors |-> actors, fragments |-> fragments, pool |-> channel_pool,
     exchange |-> receivers_for_exchange_service, handles |-> handles, tasks |-> tasks,
     senders |-> sender_placeholder, mock |-> mock_source]

\* Outcome of a step of an operation: the tables and Ok, Err (an Err(..) returned) or
\* Panic (an unwrap or assert failed).
Outcome(m, res) == [m |-> m, res |-> res]

\* Faulty variant: the actor directory never reports an id as present.
DuplicatedActor_Never(m, id) == FALSE
\* update_actor_info: `ret.is_some()` of self.actors.insert.
DuplicatedActor(m, id) == id \in DOMAIN m.actors

\* update_actor_info: insert every actor of the request; the first id already present
\* ends the call with an error, after its entry has been overwritten.
RECURSIVE update_actor_info(_, _, _)
update_actor_info(g, m, req) ==
    IF req = <<>> THEN Outcome(m, "Ok")
    ELSE LET id == Head(req)
             m2 == [m EXCEPT !.actors = Put(m.actors, id, g.host[id])]
         IN IF DuplicatedActor(m, id)
            THEN Outcome(m2, "Err")
            ELSE update_actor_info(g, m2, Tail(req))

\* update_fragment: `ret.is_some()` of self.fragments.insert.
DuplicatedFragment(m, id) == id \in m.fragments

\* update_fragment, first loop: insert every fragment of the request.
RECURSIVE InsertFragments(_, _)
InsertFragments(m, ids) ==
    IF ids = <<>> THEN Outcome(m, "Ok")
    ELSE LET m2 == [m EXCEPT !.fragments = @ \cup {Head(ids)}]
         IN IF DuplicatedFragment(m, Head(ids))
            THEN Outcome(m2, "Err")
            ELSE InsertFragments(m2, Tail(ids))

\* The edges (f, d) for the fragments f of F and their downstream ids d.
EdgesOf(g, F) ==
    UNION {{<<f, Downstreams(g, f)[k]>> : k \in 1..Len(Downstreams(g, f))} : f \in F}

\* Faulty variant: only the sender of a new channel is parked.
ParkedChannel_NoReceiver == [tx |-> TRUE, rx |-> FALSE]
\* update_fragment: the pool entry (Some(tx), Some(rx)) of a new channel.
ParkedChannel == NewChannel

\* update_fragment, second loop: for every fragment in the fragment table and each of
\* its downstream ids, a new channel is inserted into the pool.
CreateChannels(g, m) ==
    LET E == EdgesOf(g, m.fragments)
    IN [m EXCEPT !.pool = [e \in (DOMAIN m.pool) \cup E |->
                             IF e \in E THEN ParkedChannel ELSE m.pool[e]]]

update_fragment(g, m, ids) ==
    LET r == InsertFragments(m, ids)
    IN IF r.res = "Ok" THEN Outcome(CreateChannels(g, r.m), "Ok") ELSE r

\* pool.get_mut(edge) ... .0.take(): the sender of the edge is claimed.
TakeSender(m, e) ==
    IF e \notin DOMAIN m.pool THEN Outcome(m, "Err")
    ELSE IF ~m.pool[e].tx THEN Outcome(m, "Err")
    ELSE Outcome([m EXCEPT !.pool[e].tx = FALSE], "Ok")

\* pool.get_mut(edge) ... .1.take(): the receiver of the edge is claimed.
TakeReceiver(m, e) ==
    IF e \notin DOMAIN m.pool THEN Outcome(m, "Err")
    ELSE IF ~m.pool[e].rx THEN Outcome(m, "Err")
    ELSE Outcome([m EXCEPT !.pool[e].rx = FALSE], "Ok")

\* Is the actor on this node: `actor.get_host() == self.context.addr`.
IsLocal(m, id) == m.actors[id] = "local"

\* One upstream of create_merge_node: the mock source hands over its receiver (unwrap);
\* otherwise the upstream must be in the actor directory, a remote upstream also gives
\* its sender to a RemoteInput, and the receiver of the edge is claimed.
MergeInput(m, f, u) ==
    IF u = MOCK_SOURCE_ID
    THEN IF m.mock THEN Outcome([m EXCEPT !.mock = FALSE], "Ok") ELSE Outcome(m, "Panic")
    ELSE IF u \notin DOMAIN m.actors THEN Outcome(m, "Err")
    ELSE IF IsLocal(m, u) THEN TakeReceiver(m, <<u, f>>)
    ELSE LET r == TakeSender(m, <<u, f>>)
         IN IF r.res = "Ok" THEN TakeReceiver(r.m, <<u, f>>) ELSE r

\* create_merge_node: the upstreams in order, up to the first failure.
RECURSIVE create_merge_node(_, _, _)
create_merge_node(m, f, ups) ==
    IF ups = <<>> THEN Outcome(m, "Ok")
    ELSE LET r == MergeInput(m, f, Head(ups))
         IN IF r.res = "Ok" THEN create_merge_node(r.m, f, Tail(ups)) ELSE r

\* The barrier channel of a TableSourceNode: unbounded(), its receiver held by the source
\* executor of the task about to be spawned.
NewSource(m) == [owner |-> Len(m.tasks) + 1, alive |-> TRUE, queue |-> <<>>]

\* create_nodes, at the leaf of the fragment: a TableSourceNode pushes its barrier
\* sender, a MergeNode claims its inputs.
create_nodes(g, m, f) ==
    IF HasTableSource(g, f)
    THEN Outcome([m EXCEPT !.senders = Append(@, NewSource(m))], "Ok")
    ELSE create_merge_node(m, f, Upstreams(g, f))

\* One downstream of create_dispatcher: it must be in the actor directory; a local one
\* gets the sender of the pool entry, a remote one a new channel whose receiver goes to
\* the exchange service.
DispatcherOutput(m, f, d) ==
    IF d \notin DOMAIN m.actors THEN Outcome(m, "Err")
    ELSE IF IsLocal(m, d) THEN TakeSender(m, <<f, d>>)
    ELSE Outcome([m EXCEPT !.exchange = @ \cup {<<f, d>>}], "Ok")

\* create_dispatcher: the downstreams in order, up to the first failure.
RECURSIVE create_dispatcher(_, _, _)
create_dispatcher(m, f, downs) ==
    IF downs = <<>> THEN Outcome(m, "Ok")
    ELSE LET r == DispatcherOutput(m, f, Head(downs))
         IN IF r.res = "Ok" THEN create_dispatcher(r.m, f, Tail(downs)) ELSE r

\* The executors built for a fragment are dropped when its build fails: the barrier
\* receiver of its source goes with them, the sender stays in sender_placeholder.
DropExecutors(m) ==
    [m EXCEPT !.senders = [i \in DOMAIN @ |->
        IF @[i].owner = Len(m.tasks) + 1 THEN [@[i] EXCEPT !.alive = FALSE] ELSE @[i]]]

\* tokio::spawn(actor.run()) and self.handles.insert.
SpawnActor(m, f) ==
    [m EXCEPT !.tasks = Append(@, [frag |-> f, status |-> "running"]),
              !.handles = Put(@, f, Len(m.tasks) + 1)]

\* The body of the loop of build_fragment for fragment f.
BuildOne(g, m, f) ==
    IF f \notin m.fragments THEN Outcome(m, "Panic")
    ELSE LET m1 == [m EXCEPT !.fragments = @ \ {f}]
             n == create_nodes(g, m1, f)
             d == create_dispatcher(n.m, f, Downstreams(g, f))
         IN IF n.res # "Ok" THEN Outcome(DropExecutors(n.m), n.res)
            ELSE IF d.res # "Ok" THEN Outcome(DropExecutors(d.m), d.res)
            ELSE Outcome(SpawnActor(d.m, f), "Ok")

\* build_fragment: the fragments of the request in order, up to the first failure.
RECURSIVE build_fragment(_, _, _)
build_fragment(g, m, ids) ==
    IF ids = <<>> THEN Outcome(m, "Ok")
    ELSE LET r == BuildOne(g, m, Head(ids))
         IN IF r.res = "Ok" THEN build_fragment(g, r.m, Tail(ids)) ELSE r

\* JoinHandle::abort: a running task is cancelled and the barrier receivers of its
\* sources are dropped.
AbortTask(m, t) ==
    IF m.tasks[t].status # "running" THEN m
    ELSE [m EXCEPT !.tasks[t].status = "aborted",
                   !.senders = [i \in DOMAIN @ |->
                       IF @[i].owner = t THEN [@[i] EXCEPT !.alive = FALSE] ELSE @[i]]]

\* drop_fragment: channel_pool.retain(|(x, _), _| *x != fragment_id).
PoolAfterDrop(m, f) == Retain(m.pool, {e \in DOMAIN m.pool : e[1] # f})

drop_fragment(m, f) ==
    IF f \notin DOMAIN m.handles THEN Outcome(m, "Panic")
    ELSE LET m1 == [m EXCEPT !.handles = Retain(@, (DOMAIN @) \ {f}),
                             !.pool = PoolAfterDrop(m, f),
                             !.exchange = {e \in @ : e[1] # f},
                             !.actors = Retain(@, (DOMAIN @) \ {f}),
                             !.fragments = @ \ {f}]
         IN Outcome(AbortTask(m1, m.handles[f]), "Ok")

\* Message::Barrier of send_barrier and of send_stop_barrier.
Barrier(epoch) == [epoch |-> epoch, mutation |-> "Nothing"]
\* Faulty variant: the stop barrier carries no mutation.
StopBarrier_NoMutation == [epoch |-> 0, mutation |-> "Nothing"]
StopBarrier == [epoch |-> 0, mutation |-> "Stop"]

\* The loop of send_barrier and send_stop_barrier from sender i on: unbounded_send to
\* each sender in order; the unwrap panics at the first sender whose receiver is gone.
\* Faulty variant: the barrier is sent to the first sender only.
SendToAll_FirstOnly(m, i, b) ==
    IF m.senders = <<>> THEN Outcome(m, "Ok")
    ELSE Outcome([m EXCEPT !.senders[1].queue = Append(@, b)], "Ok")
RECURSIVE SendToAll(_, _, _)
SendToAll(m, i, b) ==
    IF i > Len(m.senders) THEN Outcome(m, "Ok")
    ELSE IF ~m.senders[i].alive THEN Outcome(m, "Panic")
    ELSE SendToAll([m EXCEPT !.senders[i].queue = Append(@, b)], i + 1, b)

send_barrier(m, epoch) == SendToAll(m, 1, Barrier(epoch))
send_stop_barrier(m) == SendToAll(m, 1, StopBarrier)

\* --------------------------------------------------- stream manager: actions
\* The requests of the callers.
SeqsUpTo(S, n) == UNION {[1..k -> S] : k \in 1..n}
IdLists(g) == SeqsUpTo(g.ids, MaxRequestLen)

\* A panic inside a call poisons the mutex around StreamManagerCore: every later
\* `self.core.lock().unwrap()` panics as well.
Ready == last.res # "Panic"

\* The tables after a call, and the record of the call.
Install(r, op) ==
    /\ actors' = r.m.actors
    /\ fragments' = r.m.fragments
    /\ channel_pool' = r.m.pool
    /\ receivers_for_exchange_service' = r.m.exchange
    /\ handles' = r.m.handles
    /\ tasks' = r.m.tasks
    /\ sender_placeholder' = r.m.senders
    /\ mock_source' = r.m.mock
    /\ last' = [op |-> op, res |-> r.res]
    /\ UNCHANGED <<graph, topn_vars, ext_vars>>

UpdateActorInfo ==
    /\ Ready
    /\ \E req \in IdLists(graph) :
           Install(update_actor_info(graph, Core, req), "update_actor_info")
    /\ UNCHANGED flow_vars

UpdateFragment ==
    /\ Ready
    /\ \E ids \in IdLists(graph) : Install(update_fragment(graph, Core, ids), "update_fragment")
    /\ UNCHANGED flow_vars

\* The number of tasks and of barrier senders is capped at MaxTasks.
BuildFragment ==
    /\ Ready
    /\ \E ids \in IdLists(graph) :
           LET r == build_fragment(graph, Core, ids)
           IN /\ Len(r.m.tasks) <= MaxTasks
              /\ Len(r.m.senders) <= MaxTasks
              /\ Install(r, "build_fragment")
    /\ UNCHANGED flow_vars

DropFragment ==
    /\ Ready
    /\ \E f \in graph.ids : Install(drop_fragment(Core, f), "drop_fragment")
    /\ UNCHANGED flow_vars

\* The Top-N operator left alone while the manager runs.
TopNIdle == Init /\ source = "MockSource"

\* The manager as constructed, about to receive the plans of one of the graphs.
MgrInit == StreamManagerNew /\ graph \in MgrGraphs /\ FlowIdle /\ TopNIdle /\ ExtIdle

MgrNext ==
    \/ UpdateActorInfo
    \/ UpdateFragment
    \/ BuildFragment
    \/ DropFragment

SpecMgr == MgrInit /\ [][MgrNext]_vars

MgrTypeOK ==
    /\ DOMAIN actors \subseteq graph.ids
    /\ fragments \subseteq graph.ids
    /\ \A e \in DOMAIN channel_pool : channel_pool[e] \in [tx : BOOLEAN, rx : BOOLEAN]
    /\ receivers_for_exchange_service \subseteq graph.ids \X graph.ids
    /\ \A f \in DOMAIN handles : handles[f] \in DOMAIN tasks
    /\ Len(tasks) <= MaxTasks
    /\ mock_source \in BOOLEAN
    /\ last.res \in {"Ok", "Err", "Panic"}

\* ------------------------------------------------ stream manager: properties
\* The ids of a request that are in the set D already or occur earlier in the request.
HasDuplicate(D, req) ==
    \/ \E i \in DOMAIN req : req[i] \in D
    \/ \E i, j \in DOMAIN req : i < j /\ req[i] = req[j]

\* The ends of every pool entry have been claimed.
AllClaimed == \A e \in DOMAIN channel_pool : ~channel_pool[e].tx /\ ~channel_pool[e].rx

\* Every fragment of the graph that is hosted on this node has been built and none is
\* waiting to be built.
AllBuilt ==
    /\ fragments = {}
    /\ \A i \in graph.ids : graph.host[i] = "local" => i \in DOMAIN handles

\* C12: once build_fragment has succeeded for all installed fragments, no pool entry
\* created by update_fragment holds an unclaimed sender or receiver, on local and on
\* remote edges.
C12_EveryEndClaimed ==
    (last.op = "build_fragment" /\ last.res = "Ok" /\ AllBuilt) => AllClaimed

\* C13: after a successful update_fragment the pool holds, for every installed fragment
\* f and every downstream d of f, the entry (f, d) with sender and receiver parked.
C13_ChannelsParked ==
    (last.op = "update_fragment" /\ last.res = "Ok") =>
        \A e \in EdgesOf(graph, fragments) :
            /\ e \in DOMAIN channel_pool
            /\ channel_pool[e].tx
            /\ channel_pool[e].rx

\* A successful update_fragment has parked the channel of an edge anew after a
\* fragment had been built.
C13_Witness ==
    /\ last.op = "update_fragment"
    /\ last.res = "Ok"
    /\ handles # EmptyMap
    /\ EdgesOf(graph, fragments) # {}

\* A channel that the build of fragment f needs is missing in the tables m: the peer
\* actor is not in the directory, the edge has no pool entry, or the needed end has
\* been claimed already.
MissingChannel(g, m, f) ==
    \/ \E k \in DOMAIN Upstreams(g, f) :
           LET u == Upstreams(g, f)[k]
           IN IF u = MOCK_SOURCE_ID THEN ~m.mock
              ELSE \/ u \notin DOMAIN m.actors
                   \/ <<u, f>> \notin DOMAIN m.pool
                   \/ ~m.pool[<<u, f>>].rx
                   \/ m.actors[u] # "local" /\ ~m.pool[<<u, f>>].tx
    \/ \E k \in DOMAIN Downstreams(g, f) :
           LET d == Downstreams(g, f)[k]
           IN \/ d \notin DOMAIN m.actors
              \/ /\ m.actors[d] = "local"
                 /\ \/ <<f, d>> \notin DOMAIN m.pool
                    \/ ~m.pool[<<f, d>>].tx

\* C14: build_fragment of an installed fragment that misses a channel it needs returns
\* an error and spawns no actor for it.
C14_MissingChannelIsError ==
    [][\A f \in graph.ids :
          (/\ Install(build_fragment(graph, Core, <<f>>), "build_fragment")
           /\ f \in fragments
           /\ MissingChannel(graph, Core, f))
          => (last'.res = "Err" /\ tasks' = tasks /\ handles' = handles)]_vars

\* C15: update_actor_info returns an error exactly when the request holds an id that is
\* in the actor directory already or earlier in the request; otherwise every id of the
\* request is installed.
C15_DuplicateActor ==
    [][last'.op = "update_actor_info" =>
          \A req \in IdLists(graph) :
              \/ /\ (last'.res = "Err") <=> HasDuplicate(DOMAIN actors, req)
                 /\ last'.res = "Ok" =>
                        DOMAIN actors' = (DOMAIN actors) \cup {req[i] : i \in DOMAIN req}
              \/ ~Install(update_actor_info(graph, Core, req), "update_actor_info")]_vars

\* update_actor_info has refused an id that an earlier call had installed.
C15_Witness ==
    /\ last.op = "update_actor_info"
    /\ last.res = "Err"
    /\ DOMAIN actors = graph.ids

\* C16: update_fragment returns the duplicate error whenever its list holds an id that
\* is installed and not dropped (waiting to be built, or built), or an id twice.
C16_DuplicateFragment ==
    [][\A ids \in IdLists(graph) :
          (/\ Install(update_fragment(graph, Core, ids), "update_fragment")
           /\ HasDuplicate(fragments \cup DOMAIN handles, ids))
          => last'.res = "Err"]_vars

\* C20: after drop_fragment(f) has returned, no pool or exchange entry has f as an
\* endpoint, f is in neither the actor directory nor the fragment table, and the task
\* of f has left the handle table and does not run.
C20_DropRemovesAll ==
    [][\A f \in graph.ids :
          (/\ Install(drop_fragment(Core, f), "drop_fragment")
           /\ last'.res = "Ok")
          => /\ \A e \in (DOMAIN channel_pool') \cup receivers_for_exchange_service' :
                    e[1] # f /\ e[2] # f
             /\ f \notin DOMAIN actors'
             /\ f \notin fragments'
             /\ f \notin DOMAIN handles'
             /\ tasks'[handles[f]].status # "running"]_vars

\* One end of the pool entry has been claimed, the other is still parked.
HalfClaimed(c) == c.tx # c.rx

\* C35: the two ends claimed for an edge belong to one channel: update_fragment never
\* replaces a pool entry of which one end has been claimed already.
C35_ClaimedEndsMatch ==
    [][last'.op = "update_fragment" =>
          \A e \in DOMAIN channel_pool :
              HalfClaimed(channel_pool[e]) =>
                  e \in DOMAIN channel_pool' /\ channel_pool'[e] = channel_pool[e]]_vars

\* C36: every task that runs is the task of the handle its fragment id has in the
\* handle table; so at most one task runs per fragment id and no handle of a running
\* task was overwritten or lost.
C36_OneTaskPerFragment ==
    \A t \in DOMAIN tasks :
        tasks[t].status = "running" =>
            /\ tasks[t].frag \in DOMAIN handles
            /\ handles[tasks[t].frag] = t

\* C38: an update_actor_info that returns the duplicate error leaves the actor
\* directory as it was.
C38_DuplicateLeavesActors ==
    [][(last'.op = "update_actor_info" /\ last'.res = "Err") => actors' = actors]_vars

\* The tables of the fragments other than f, and the entries of the edges f is no end of.
OthersOf(m, f) ==
    [actors |-> Retain(m.actors, (DOMAIN m.actors) \ {f}),
     fragments |-> m.fragments \ {f},
     handles |-> Retain(m.handles, (DOMAIN m.handles) \ {f}),
     pool |-> Retain(m.pool, {e \in DOMAIN m.pool : e[1] # f /\ e[2] # f}),
     exchange |-> {e \in m.exchange : e[1] # f /\ e[2] # f}]

\* C39: drop_fragment(f) leaves the tables of every other fragment and the entries of
\* the edges that do not involve f as they were, and for an f without a handle it
\* returns an error and changes nothing.
C39_DropLeavesOthers ==
    [][last'.op = "drop_fragment" =>
          \A f \in graph.ids :
              \/ ~Install(drop_fragment(Core, f), "drop_fragment")
              \/ /\ OthersOf(drop_fragment(Core, f).m, f) = OthersOf(Core, f)
                 /\ f \notin DOMAIN handles =>
                        last'.res = "Err" /\ drop_fragment(Core, f).m = Core]_vars

\* C40: a build_fragment of one fragment that returns an error leaves the tables as
\* they were: the plan is still installed, no channel end was claimed, no barrier
\* sender or exchange receiver was registered and no task was spawned.
C40_FailedBuildLeavesAll ==
    [][(last'.op = "build_fragment" /\ last'.res = "Err") =>
          \A f \in graph.ids :
              \/ ~Install(build_fragment(graph, Core, <<f>>), "build_fragment")
              \/ /\ fragments' = fragments
                 /\ channel_pool' = channel_pool
                 /\ sender_placeholder' = sender_placeholder
                 /\ receivers_for_exchange_service' = receivers_for_exchange_service
                 /\ tasks' = tasks /\ handles' = handles]_vars

\* ------------------------------------------------------- exchange receivers
\* StreamManager::take_receiver: receivers_for_exchange_service.remove(&ids), an
\* InternalError when there is no entry.
\* Faulty variant: the receiver is handed out and stays registered.
take_receiver_Peek(m, e) == Outcome(m, IF e \in m.exchange THEN "Ok" ELSE "Err")
take_receiver(m, e) ==
    IF e \in m.exchange THEN Outcome([m EXCEPT !.exchange = @ \ {e}], "Ok")
    ELSE Outcome(m, "Err")

\* The exchange service asks for the receiver of an edge.
TakeReceiverCall ==
    /\ Ready
    /\ \E e \in graph.ids \X graph.ids : Install(take_receiver(Core, e), "take_receiver")
    /\ UNCHANGED flow_vars

\* The manager as constructed, about to receive the plans of a graph with one of its
\* actors on another node.
ExchangeInit ==
    /\ StreamManagerNew
    /\ graph \in {ChainGraph(<<>>, hosts) :
                     hosts \in {<<"local", "remote">>, <<"remote", "local">>}}
    /\ FlowIdle /\ TopNIdle /\ ExtIdle

ExchangeNext ==
    \/ UpdateActorInfo
    \/ UpdateFragment
    \/ BuildFragment
    \/ DropFragment
    \/ TakeReceiverCall

SpecExchange == ExchangeInit /\ [][ExchangeNext]_vars

\* C32: take_receiver of an edge with a registered receiver returns it and removes the
\* registration, so that the next call for the edge fails; take_receiver of an edge
\* without a registered receiver returns an error; and neither changes anything else.
C32_TakeReceiverOnce ==
    [][last'.op = "take_receiver" =>
          /\ \A e \in graph.ids \X graph.ids :
                 \/ ~Install(take_receiver(Core, e), "take_receiver")
                 \/ IF e \in receivers_for_exchange_service
                    THEN /\ last'.res = "Ok"
                         /\ receivers_for_exchange_service' = receivers_for_exchange_service \ {e}
                    ELSE /\ last'.res = "Err"
                         /\ receivers_for_exchange_service' = receivers_for_exchange_service
          /\ <<actors, fragments, channel_pool, handles, tasks, sender_placeholder,
               mock_source>>' =
             <<actors, fragments, channel_pool, handles, tasks, sender_placeholder,
               mock_source>>]_vars

\* The receiver of the remote edge of a built and running fragment has been taken.
C32_Witness ==
    /\ last.op = "take_receiver" /\ last.res = "Ok"
    /\ receivers_for_exchange_service = {}
    /\ \E f \in DOMAIN handles : tasks[handles[f]].status = "running"

\* ------------------------------------------------------------ the dataflow
MaxChunks == 2
LOCAL_OUTPUT_CHANNEL_SIZE == 16

Epochs == 1..2

\* Messages on the edges.  A chunk carries its source and the number of barriers the
\* source had emitted before it.
Chunk(src, n) == [kind |-> "Chunk", src |-> src, n |-> n]
IsBarrier(msg) == "mutation" \in DOMAIN msg
IsStop(msg) == IsBarrier(msg) /\ msg.mutation = "Stop"

\* StreamManagerCore::new as a value.
CoreNew ==
    [actors |-> EmptyMap, fragments |-> {}, pool |-> EmptyMap, exchange |-> {},
     handles |-> EmptyMap, tasks |-> <<>>, senders |-> <<>>, mock |-> TRUE]

\* The ids of a graph in ascending order.
RECURSIVE IdsInOrder(_)
IdsInOrder(S) ==
    IF S = {} THEN <<>>
    ELSE LET x == CHOOSE y \in S : \A z \in S : y <= z IN <<x>> \o IdsInOrder(S \ {x})

\* The manager after update_actor_info, update_fragment and build_fragment for every
\* fragment of the graph g.
Built(g) ==
    LET ids == IdsInOrder(g.ids)
        r1 == update_actor_info(g, CoreNew, ids)
        r2 == update_fragment(g, r1.m, ids)
    IN build_fragment(g, r2.m, ids)

\* The dataflow of FanInGraph has been built and starts to run.
FlowInit ==
    /\ graph = FanInGraph
    /\ LET r == Built(FanInGraph)
       IN /\ actors = r.m.actors
          /\ fragments = r.m.fragments
          /\ channel_pool = r.m.pool
          /\ receivers_for_exchange_service = r.m.exchange
          /\ handles = r.m.handles
          /\ tasks = r.m.tasks
          /\ sender_placeholder = r.m.senders
          /\ mock_source = r.m.mock
          /\ last = [op |-> "build_fragment", res |-> r.res]
          /\ chan = [e \in EdgesOf(FanInGraph, FanInGraph.ids) |-> <<>>]
          /\ blocked = [f \in FanInGraph.ids |-> {}]
          /\ src_barriers = [i \in DOMAIN r.m.senders |-> <<>>]
    /\ delivered = <<>>
    /\ produced = 0
    /\ sent = 0
    /\ stop_sent = FALSE
    /\ wait = "none"
    /\ TopNIdle
    /\ ExtIdle

\* The out-channels of actor f have room for one more message.
HasRoom(f) == \A e \in DOMAIN chan : e[1] = f => Len(chan[e]) < LOCAL_OUTPUT_CHANNEL_SIZE

\* The dispatcher of actor f sends msg on every out-channel; the c is the channels
\* before the send.
Dispatch(c, f, msg) == [e \in DOMAIN c |-> IF e[1] = f THEN Append(c[e], msg) ELSE c[e]]

\* What reaches the end of the dataflow: the output of an actor without downstream.
Deliver(f, msg) ==
    IF Downstreams(graph, f) = <<>> THEN Append(delivered, msg) ELSE delivered

\* The fragment that source i belongs to.
FragOfSource(i) == tasks[sender_placeholder[i].owner].frag

\* A source executor emits a chunk.
SourceChunk ==
    \E i \in DOMAIN sender_placeholder :
        /\ sender_placeholder[i].alive
        /\ produced < MaxChunks
        /\ HasRoom(FragOfSource(i))
        /\ chan' = Dispatch(chan, FragOfSource(i), Chunk(i, Len(src_barriers[i])))
        /\ produced' = produced + 1
        /\ UNCHANGED <<topn_vars, ext_vars, mgr_vars, blocked, delivered, src_barriers, sent,
                       stop_sent, wait>>

\* A source executor takes the next barrier of its barrier channel and emits it; on a
\* Stop barrier its actor terminates and the barrier receiver is dropped.
SourceBarrier ==
    \E i \in DOMAIN sender_placeholder :
        /\ sender_placeholder[i].alive
        /\ sender_placeholder[i].queue # <<>>
        /\ HasRoom(FragOfSource(i))
        /\ LET b == Head(sender_placeholder[i].queue)
           IN /\ chan' = Dispatch(chan, FragOfSource(i), b)
              /\ src_barriers' = [src_barriers EXCEPT ![i] = Append(@, b)]
              /\ sender_placeholder' = [sender_placeholder EXCEPT
                     ![i].queue = Tail(@), ![i].alive = ~IsStop(b)]
              /\ tasks' = IF IsStop(b)
                          THEN [tasks EXCEPT ![sender_placeholder[i].owner].status = "finished"]
                          ELSE tasks
        /\ UNCHANGED <<topn_vars, ext_vars, actors, fragments, channel_pool,
                       receivers_for_exchange_service, handles, mock_source, graph, last,
                       blocked, delivered, produced, sent, stop_sent, wait>>

\* Faulty variant: the merge node reads its first upstream only.
UpstreamSet_FirstOnly(f) == {Upstreams(graph, f)[k] : k \in DOMAIN Upstreams(graph, f) \cap {1}}
\* The inputs of the merge node of actor f: one receiver per upstream id.
UpstreamSet(f) == {Upstreams(graph, f)[k] : k \in DOMAIN Upstreams(graph, f)}

\* The barrier has arrived on every input of the merge node.
Aligned(f, B) == B = UpstreamSet(f)

\* The ReceiverExecutor or MergeExecutor of actor f takes a message from an input that
\* is not blocked.  A chunk is passed on.  A barrier blocks its input; once every input
\* has delivered it, it is passed on once and the inputs are released; on a Stop
\* barrier the actor then terminates.
ActorRecv ==
    \E t \in DOMAIN tasks : \E u \in UpstreamSet(tasks[t].frag) \ blocked[tasks[t].frag] :
        /\ tasks[t].status = "running"
        /\ <<u, tasks[t].frag>> \in DOMAIN chan
        /\ chan[<<u, tasks[t].frag>>] # <<>>
        /\ HasRoom(tasks[t].frag)
        /\ LET f == tasks[t].frag
               msg == Head(chan[<<u, f>>])
               popped == [chan EXCEPT ![<<u, f>>] = Tail(@)]
               pass == ~IsBarrier(msg) \/ Aligned(f, blocked[f] \cup {u})
           IN /\ chan' = IF pass THEN Dispatch(popped, f, msg) ELSE popped
              /\ delivered' = IF pass THEN Deliver(f, msg) ELSE delivered
              /\ blocked' = [blocked EXCEPT ![f] =
                                IF ~IsBarrier(msg) THEN @
                                ELSE IF pass THEN {} ELSE @ \cup {u}]
              /\ tasks' = IF pass /\ IsStop(msg)
                          THEN [tasks EXCEPT ![t].status = "finished"]
                          ELSE tasks
        /\ UNCHANGED <<topn_vars, ext_vars, actors, fragments, channel_pool,
                       receivers_for_exchange_service, handles, sender_placeholder,
                       mock_source, graph, last, src_barriers, produced, sent, stop_sent,
                       wait>>

\* wait_all keeps the mutex of the manager locked while it awaits: no other call runs.
Unlocked == Ready /\ wait = "none"

\* The number of barrier calls is capped at MaxBarriers.
SendBarrier ==
    /\ Unlocked
    /\ sent < MaxBarriers
    /\ \E epoch \in Epochs : Install(send_barrier(Core, epoch), "send_barrier")
    /\ sent' = sent + 1
    /\ UNCHANGED <<chan, blocked, delivered, src_barriers, produced, stop_sent, wait>>

SendStopBarrier ==
    /\ Unlocked
    /\ sent < MaxBarriers
    /\ Install(send_stop_barrier(Core), "send_stop_barrier")
    /\ sent' = sent + 1
    /\ stop_sent' = (stop_sent \/ last'.res = "Ok")
    /\ UNCHANGED <<chan, blocked, delivered, src_barriers, produced, wait>>

\* wait_all is called: it takes the handle table and awaits the handles.
WaitAllCall ==
    /\ Unlocked
    /\ wait' = "waiting"
    /\ handles' = EmptyMap
    /\ last' = [op |-> "wait_all", res |-> "Ok"]
    /\ UNCHANGED <<topn_vars, ext_vars, actors, fragments, channel_pool,
                   receivers_for_exchange_service, tasks, sender_placeholder, mock_source,
                   graph, chan, blocked, delivered, src_barriers, produced, sent, stop_sent>>

\* wait_all returns once every task has finished.
WaitAllReturn ==
    /\ wait = "waiting"
    /\ \A t \in DOMAIN tasks : tasks[t].status = "finished"
    /\ wait' = "returned"
    /\ UNCHANGED <<topn_vars, ext_vars, mgr_vars, chan, blocked, delivered, src_barriers, produced,
                   sent, stop_sent>>

FlowNext ==
    \/ SourceChunk
    \/ SourceBarrier
    \/ ActorRecv
    \/ SendBarrier
    \/ SendStopBarrier
    \/ WaitAllCall
    \/ WaitAllReturn

SpecFlow == FlowInit /\ [][FlowNext]_vars

\* The tasks of the actors are scheduled fairly, and so is the task that awaits them.
SpecFlowFair ==
    /\ SpecFlow
    /\ WF_vars(SourceBarrier)
    /\ WF_vars(ActorRecv)
    /\ WF_vars(WaitAllReturn)

FlowTypeOK ==
    /\ last.res \in {"Ok", "Panic"}
    /\ sent \in 0..MaxBarriers
    /\ wait \in {"none", "waiting", "returned"}
    /\ \A e \in DOMAIN chan : Len(chan[e]) <= LOCAL_OUTPUT_CHANNEL_SIZE

\* ---------------------------------------------------- the dataflow: properties
BarriersOf(h) == SelectSeq(h, IsBarrier)
IsPrefix(a, b) == Len(a) <= Len(b) /\ \A k \in 1..Len(a) : a[k] = b[k]

\* Everything the actor of fragment 3, whose merge node has the two inputs 1 and 2, has
\* emitted, in order.
MergeOutput == delivered

\* The number of barriers the merge node of fragment 3 has received from source i.
ReceivedFrom(i) ==
    Len(src_barriers[i]) - Len(BarriersOf(chan[<<FragOfSource(i), 3>>]))

\* C11: the actor with two inputs emits each barrier once, in the
\* order sent and only after the barrier has arrived on both inputs, and it emits a
\* chunk that followed the n-th barrier on its input only after it has emitted n
\* barriers (and a chunk that preceded the next barrier before that one).
C11_BarrierAlignment ==
    LET h == MergeOutput
    IN /\ \A i \in DOMAIN src_barriers :
              /\ IsPrefix(BarriersOf(h), src_barriers[i])
              /\ Len(BarriersOf(h)) <= ReceivedFrom(i)
       /\ \A p \in DOMAIN h :
              ~IsBarrier(h[p]) => Len(BarriersOf(SubSeq(h, 1, p - 1))) = h[p].n

\* The merge node has passed on a chunk of before the barrier, the barrier, and a chunk
\* that followed the barrier on the other input.
C11_Witness ==
    \E p, q, r \in DOMAIN MergeOutput :
        /\ p < q /\ q < r
        /\ ~IsBarrier(MergeOutput[p])
        /\ IsBarrier(MergeOutput[q])
        /\ ~IsBarrier(MergeOutput[r])
        /\ MergeOutput[p].src # MergeOutput[r].src

\* C17: a send_barrier(epoch) call appends one Barrier of that epoch, without mutation,
\* to the barrier channel of every source built so far that still runs, behind the
\* barriers of the earlier calls.
C17_BarrierToEverySource ==
    [][\A epoch \in Epochs :
          Install(send_barrier(Core, epoch), "send_barrier")
          => \A i \in DOMAIN sender_placeholder :
                 sender_placeholder[i].alive =>
                     sender_placeholder'[i].queue =
                         Append(sender_placeholder[i].queue, Barrier(epoch))]_vars

\* C37: send_barrier and send_stop_barrier never fail, whatever sources have terminated.
C37_BarrierCallsSucceed ==
    last.op \in {"send_barrier", "send_stop_barrier"} => last.res = "Ok"

\* Every task has finished and the Stop barrier has reached the end of the dataflow.
StopFlushed ==
    /\ \A t \in DOMAIN tasks : tasks[t].status = "finished"
    /\ delivered # <<>>
    /\ IsStop(delivered[Len(delivered)])

\* C18: once send_stop_barrier has returned, every actor eventually has passed on the
\* Stop barrier and terminated, and a wait_all that awaits the actors returns.
C18_StopTerminates ==
    /\ stop_sent ~> StopFlushed
    /\ (stop_sent /\ wait = "waiting") ~> (wait = "returned")

\* wait_all has returned after the Stop barrier ran through the dataflow.
C18_Witness == stop_sent /\ StopFlushed /\ wait = "returned"

\* C19: the epochs of the barriers a source emits never decrease.
C19_EpochsNeverDecrease ==
    \A i \in DOMAIN src_barriers :
        \A k \in 1..(Len(src_barriers[i]) - 1) :
            src_barriers[i][k].epoch <= src_barriers[i][k + 1].epoch

\* Every barrier sent to source i so far, in order: those it has emitted and those
\* still in its barrier channel.
SentTo(i) == src_barriers[i] \o sender_placeholder[i].queue

NonStop(q) == SelectSeq(q, LAMBDA b : ~IsStop(b))

\* The barriers of q in front of its first Stop barrier.
RECURSIVE BeforeStop(_)
BeforeStop(q) ==
    IF q = <<>> \/ IsStop(Head(q)) THEN <<>> ELSE <<Head(q)>> \o BeforeStop(Tail(q))

\* The end of the dataflow has delivered no barrier that was not sent, each at most
\* once and in the order sent, and no chunk behind a barrier that its source emitted
\* after the chunk.
DeliveredInOrder ==
    /\ \A i \in DOMAIN src_barriers : IsPrefix(BarriersOf(delivered), SentTo(i))
    /\ \A p \in DOMAIN delivered :
           ~IsBarrier(delivered[p]) =>
               Len(BarriersOf(SubSeq(delivered, 1, p - 1))) <= delivered[p].n

\* C24 as stated: the barrier of every send_barrier call that returned is eventually
\* delivered at the end of the dataflow, exactly once and behind every chunk emitted
\* before it.  (A call that returned has reached the last sender.)
C24_EveryBarrierDelivered ==
    /\ []DeliveredInOrder
    /\ []<>(NonStop(BarriersOf(delivered)) = NonStop(SentTo(Len(sender_placeholder))))

\* C24, amended: the barrier of every send_barrier call made before any
\* send_stop_barrier call is eventually delivered at the end of the dataflow, exactly
\* once and behind every chunk a source emitted before it.
C24_BarrierBroadcast ==
    /\ []DeliveredInOrder
    /\ []<>(\A i \in DOMAIN src_barriers :
                NonStop(BarriersOf(delivered)) = BeforeStop(SentTo(i)))

\* Two barriers of send_barrier were delivered, with a chunk in front of the first.
C24_Witness ==
    /\ ~stop_sent
    /\ Len(BarriersOf(delivered)) = 2
    /\ \A i \in DOMAIN src_barriers : BarriersOf(delivered) = SentTo(i)
    /\ ~IsBarrier(delivered[1])

\* --------------------------------------------------------- wait_all: actions
\* The ways the task of an actor ends by itself: actor.run() returns Ok(()) or an
\* Err, or it panics (as the Top-N operator does on `top_element().unwrap()`).
TaskOutcomes == {"finished", "failed", "panicked"}

\* The task of an actor ends; a source's barrier receiver goes with it.
TaskEnds ==
    \E t \in DOMAIN tasks : \E s \in TaskOutcomes :
        /\ tasks[t].status = "running"
        /\ tasks' = [tasks EXCEPT ![t].status = s]
        /\ sender_placeholder' = [i \in DOMAIN sender_placeholder |->
               IF sender_placeholder[i].owner = t
               THEN [sender_placeholder[i] EXCEPT !.alive = FALSE]
               ELSE sender_placeholder[i]]
        /\ UNCHANGED <<topn_vars, ext_vars, flow_vars, actors, fragments, channel_pool,
                       receivers_for_exchange_service, handles, mock_source, graph, last>>

\* drop_fragment, called before wait_all (which consumes the manager).
DropBeforeWait == wait = "none" /\ DropFragment

\* The orders in which a HashMap with the values of h can be iterated.
IterationOrders(h) ==
    {o \in [1..Cardinality(DOMAIN h) -> {h[f] : f \in DOMAIN h}] :
        \A i, j \in DOMAIN o : i # j => o[i] # o[j]}

\* StreamManager::wait_all locks the core and calls StreamManagerCore::wait_all, which
\* takes the handle table and starts to iterate over it.
WaitAllTake ==
    /\ Unlocked
    /\ \E o \in IterationOrders(handles) : joining' = [order |-> o, pos |-> 1, core |-> TRUE]
    /\ handles' = EmptyMap
    /\ wait' = "waiting"
    /\ UNCHANGED <<topn_vars, store_vars, id_vars, cache_vars, actors, fragments,
                   channel_pool, receivers_for_exchange_service, tasks, sender_placeholder,
                   mock_source, graph, last, chan, blocked, delivered, src_barriers,
                   produced, sent, stop_sent>>

\* The handle the loop of wait_all is awaiting.
Awaited == joining.order[joining.pos]

\* `handle.await.unwrap()?` once the awaited task has ended: Ok(Ok(())) goes on with
\* the next handle; Ok(Err(e)) returns e, dropping the guard and the handles left
\* (a dropped JoinHandle detaches its task); Err(JoinError) of a task that panicked
\* makes unwrap panic, which poisons the mutex.
WaitAllJoin ==
    /\ wait = "waiting"
    /\ joining.pos <= Len(joining.order)
    /\ tasks[Awaited].status # "running"
    /\ LET st == tasks[Awaited].status
       IN /\ joining' = [joining EXCEPT !.pos = IF st = "finished" THEN @ + 1 ELSE @,
                                        !.core = (st = "finished")]
          /\ wait' = IF st = "finished" THEN "waiting"
                     ELSE IF st = "failed" THEN "returned" ELSE "panicked"
          /\ last' = IF st = "finished" THEN last
                     ELSE [op |-> "wait_all", res |-> IF st = "failed" THEN "Err" ELSE "Panic"]
    /\ UNCHANGED <<topn_vars, store_vars, id_vars, cache_vars, actors, fragments,
                   channel_pool, receivers_for_exchange_service, handles, tasks,
                   sender_placeholder, mock_source, graph, chan, blocked, delivered,
                   src_barriers, produced, sent, stop_sent>>

\* The loop of wait_all is over: Ok(()).
WaitAllDone ==
    /\ wait = "waiting"
    /\ joining.pos > Len(joining.order)
    /\ joining' = [joining EXCEPT !.core = FALSE]
    /\ wait' = "returned"
    /\ last' = [op |-> "wait_all", res |-> "Ok"]
    /\ UNCHANGED <<topn_vars, store_vars, id_vars, cache_vars, actors, fragments,
                   channel_pool, receivers_for_exchange_service, handles, tasks,
                   sender_placeholder, mock_source, graph, chan, blocked, delivered,
                   src_barriers, produced, sent, stop_sent>>

WaitNext ==
    \/ TaskEnds
    \/ DropBeforeWait
    \/ WaitAllTake
    \/ WaitAllJoin
    \/ WaitAllDone

\* The actors of FanInGraph have been spawned; they end one by one, fragments are
\* dropped, and wait_all is called.
SpecWait == FlowInit /\ [][WaitNext]_vars

WaitTypeOK ==
    /\ wait \in {"none", "waiting", "returned", "panicked"}
    /\ joining.pos \in 1..(Len(joining.order) + 1)
    /\ \A t \in DOMAIN tasks :
           tasks[t].status \in TaskOutcomes \cup {"running", "aborted"}

\* ------------------------------------------------------ wait_all: properties
\* The tasks whose handles wait_all took.
Taken == {joining.order[i] : i \in DOMAIN joining.order}

\* wait_all is over, by a return or by a panic.
WaitOver == wait \in {"returned", "panicked"}

\* C21: wait_all takes the handle of every task that still runs and of no task that
\* drop_fragment aborted, and leaves the handle table empty; when it is over it has
\* awaited every one of them, and
\* it has returned Ok only if all of them finished with Ok, and else the error of one
\* of them.
C21_WaitAllJoinsAll ==
    wait # "none" =>
        /\ handles = EmptyMap
        /\ \A t \in DOMAIN tasks :
               /\ tasks[t].status = "running" => t \in Taken
               /\ tasks[t].status = "aborted" => t \notin Taken
        /\ WaitOver =>
              /\ last.res \in {"Ok", "Err"}
              /\ last.res = "Ok" => \A t \in Taken : tasks[t].status = "finished"
              /\ last.res = "Err" => \E t \in Taken : tasks[t].status = "failed"
              /\ \A t \in Taken : tasks[t].status # "running"

\* C22: once wait_all has returned the error of an actor, no other actor task is
\* still running.
C22_OthersAborted ==
    (wait = "returned" /\ last.res = "Err") => \A t \in Taken : tasks[t].status # "running"

\* The loop of wait_all is suspended at `handle.await`: the awaited task still runs.
AwaitPending ==
    wait = "waiting" /\ joining.pos <= Len(joining.order) /\ tasks[Awaited].status = "running"

\* C23: no call of the manager is suspended at an await while it holds the guard of
\* the mutex around the core, which holds the actor directory.
C23_NoGuardAcrossAwait == ~(AwaitPending /\ joining.core)

\* ------------------------------------------------ state store: selection
\* A &str is the sequence of its characters.
MaxExtra == 1

\* The string literals of get_state_store_impl.
Str ==
    [in_memory |-> <<"i", "n", "_", "m", "e", "m", "o", "r", "y">>,
     in_memory_dash |-> <<"i", "n", "-", "m", "e", "m", "o", "r", "y">>,
     tikv |-> <<"t", "i", "k", "v">>,
     tikv_url |-> <<"t", "i", "k", "v", ":", "/", "/">>,
     hummock |-> <<"h", "u", "m", "m", "o", "c", "k", "+">>,
     hummock_minio_url |-> <<"h", "u", "m", "m", "o", "c", "k", "+", "m", "i", "n", "i", "o", ":", "/", "/">>,
     hummock_s3_url |-> <<"h", "u", "m", "m", "o", "c", "k", "+", "s", "3", ":", "/", "/">>]

\* str::starts_with and str::strip_prefix.
StartsWith(str, prefix) ==
    Len(str) >= Len(prefix) /\ SubSeq(str, 1, Len(prefix)) = prefix
StripPrefix(str, prefix) ==
    IF StartsWith(str, prefix) THEN Some(SubSeq(str, Len(prefix) + 1, Len(str))) ELSE NoLimit

Selected(backend, arg) == [backend |-> backend, arg |-> arg]

\* Faulty variant: a string of no known scheme selects the memory store.
get_state_store_impl_Lenient(state_store_) ==
    IF state_store_ # NoLimit /\ StartsWith(state_store_[1], Str.hummock)
    THEN Selected("HummockStateStore", state_store_[1])
    ELSE IF state_store_ # NoLimit /\ StartsWith(state_store_[1], Str.tikv_url)
    THEN Selected("TikvStateStore", state_store_[1])
    ELSE Selected("MemoryStateStore", <<>>)
\* StreamManagerCore::get_state_store_impl: the arms of the match in order.  The arg is
\* what the backend is constructed with.
get_state_store_impl(state_store_) ==
    IF state_store_ \in {Some(Str.in_memory), Some(Str.in_memory_dash), NoLimit}
    THEN Selected("MemoryStateStore", <<>>)
    ELSE LET str == state_store_[1]
         IN IF StartsWith(str, Str.tikv)
            THEN LET endpoint == StripPrefix(str, Str.tikv_url)
                 IN IF endpoint = NoLimit THEN Selected("Panic", <<>>)
                    ELSE Selected("TikvStateStore", endpoint[1])
            ELSE IF StartsWith(str, Str.hummock_minio_url)
            THEN LET minio == StripPrefix(str, Str.hummock)
                 IN IF minio = NoLimit THEN Selected("Panic", <<>>)
                    ELSE Selected("HummockStateStore", minio[1])
            ELSE IF StartsWith(str, Str.hummock_s3_url)
            THEN LET bucket == StripPrefix(str, Str.hummock_s3_url)
                 IN IF bucket = NoLimit THEN Selected("Panic", <<>>)
                    ELSE Selected("HummockStateStore", bucket[1])
            ELSE Selected("Panic", <<>>)

\* The arguments a manager is constructed with: None, or the beginning of a known
\* name, of a name next to one or of a foreign one, followed by up to MaxExtra
\* characters.
StoreArgs ==
    LET names == {Str.in_memory, Str.in_memory_dash, Str.tikv_url, Str.hummock_minio_url,
                  Str.hummock_s3_url, <<"t", "i", "k", "v", "s", ":", "/", "/">>, <<"r", "o", "c", "k", "s", "d", "b", ":", "/", "/">>}
        exts == UNION {[1..k -> {"a"}] : k \in 0..MaxExtra}
    IN {NoLimit} \cup
       UNION {{Some(SubSeq(name, 1, n) \o ext) : n \in 0..Len(name), ext \in exts} :
              name \in names}

\* StreamManager::new / StreamManagerCore::new with the state_store argument.
ManagerNew ==
    /\ state_store.backend = "unset"
    /\ state_store' = get_state_store_impl(state_store_arg)
    /\ UNCHANGED <<topn_vars, mgr_vars, flow_vars, wait_vars, id_vars, cache_vars,
                   state_store_arg>>

StoreInit ==
    /\ state_store_arg \in StoreArgs
    /\ state_store = Selected("unset", <<>>)
    /\ StreamManagerNew /\ graph = ChainGraph(<<>>, <<"local", "local">>) /\ FlowIdle
    /\ TopNIdle /\ WaitIdle /\ IdsIdle /\ CacheIdle

SpecStore == StoreInit /\ [][ManagerNew]_vars

StoreTypeOK ==
    state_store.backend \in
        {"unset", "Panic", "MemoryStateStore", "TikvStateStore", "HummockStateStore"}

\* ------------------------------------------------ state store: properties
Constructed == state_store.backend # "unset"

\* The argument is a string of the scheme given.
HasScheme(scheme) == state_store_arg # NoLimit /\ StartsWith(state_store_arg[1], scheme)

KnownScheme == HasScheme(Str.tikv_url) \/ HasScheme(Str.hummock_minio_url) \/ HasScheme(Str.hummock_s3_url)

\* The backends selected for the four known forms.
KnownSelected ==
    /\ state_store_arg = Some(Str.in_memory) => state_store.backend = "MemoryStateStore"
    /\ HasScheme(Str.tikv_url) => state_store.backend = "TikvStateStore"
    /\ HasScheme(Str.hummock_minio_url) => state_store.backend = "HummockStateStore"
    /\ HasScheme(Str.hummock_s3_url) => state_store.backend = "HummockStateStore"

\* C25 as stated: in_memory, tikv://.., hummock+minio://.. and hummock+s3://.. select
\* the memory, TiKV and Hummock backends, and every other string ends the construction
\* with an error and no backend.
C25_OnlyFourSchemes ==
    Constructed =>
        /\ KnownSelected
        /\ (state_store_arg \notin {NoLimit, Some(Str.in_memory)} /\ ~KnownScheme)
               => state_store.backend = "Panic"

\* C25, amended: as stated, but in-memory selects the memory backend too; every
\* string other than these five forms ends the construction with a panic.
C25_StoreSelection ==
    Constructed =>
        /\ KnownSelected
        /\ state_store_arg = Some(Str.in_memory_dash) => state_store.backend = "MemoryStateStore"
        /\ (state_store_arg \notin {NoLimit, Some(Str.in_memory), Some(Str.in_memory_dash)}
                /\ ~KnownScheme)
               => state_store.backend = "Panic"

\* A manager was to be constructed with a string that starts with tikv but not with
\* tikv://: the unwrap of strip_prefix panicked.
C25_Witness ==
    /\ Constructed /\ HasScheme(Str.tikv) /\ ~HasScheme(Str.tikv_url)
    /\ state_store.backend = "Panic"

\* ------------------------------------------------------------ executor ids
MaxExecutors == 3
MaxNodes == 2
\* A u32 is <<high half, low half>>, each half below 2^16.
HALF == 65536
U32_MAX == <<HALF - 1, HALF - 1>>
\* The u32 after n, wrapping.
U32Succ(n) ==
    IF n[2] < HALF - 1 THEN <<n[1], n[2] + 1>>
    ELSE IF n[1] < HALF - 1 THEN <<n[1] + 1, 0>>
    ELSE <<0, 0>>

\* The nodes create_nodes_inner builds with Keyspace::executor_root(store, id), and one
\* of those it builds without a keyspace.
StatefulNodes == {"SimpleAggNode", "HashAggNode", "AppendOnlyTopNNode", "TopNNode", "HashJoinNode"}
PlanNodes == StatefulNodes \cup {"ProjectNode"}

\* generate_mock_executor_id on the counter next.  `+= 1` on u32::MAX panics in a
\* build with overflow checks and wraps to 0 in one without.
generate_mock_executor_id(next, overflow_checks) ==
    [id |-> next,
     next |-> U32Succ(next),
     panic |-> next = U32_MAX /\ overflow_checks]

\* u32::to_be_bytes.
U32BE(n) == <<n[1] \div 256, n[1] % 256, n[2] \div 256, n[2] % 256>>

\* Keyspace::executor_root: the prefix of every key of the executor.
executor_root(id) == <<"e">> \o U32BE(id)

\* TopNExecutor::new: keyspace.with_segment(Segment::FixedLength(..)) for Low, Mid, High.
TopNKeyspaces(root) == {root \o <<"l", "/">>, root \o <<"m", "/">>, root \o <<"h", "/">>}

\* create_nodes_inner over the nodes of a fragment, input first: every stateful node
\* takes the next id.  The c is [next, executors, panic].
RECURSIVE CreateStateful(_, _, _)
CreateStateful(c, nodes, overflow_checks) ==
    IF nodes = <<>> \/ c.panic THEN c
    ELSE IF Head(nodes) \notin StatefulNodes
    THEN CreateStateful(c, Tail(nodes), overflow_checks)
    ELSE LET g == generate_mock_executor_id(c.next, overflow_checks)
         IN CreateStateful(
                [next |-> g.next,
                 executors |-> IF g.panic THEN c.executors
                               ELSE Append(c.executors,
                                           [kind |-> Head(nodes), id |-> g.id,
                                            keyspace |-> executor_root(g.id)]),
                 panic |-> g.panic],
                Tail(nodes), overflow_checks)

\* build_fragment for a fragment of up to MaxNodes nodes; at most MaxExecutors stateful
\* executors are built.
BuildExecutors ==
    /\ Ready
    /\ \E nodes \in SeqsUpTo(PlanNodes, MaxNodes) : \E overflow_checks \in BOOLEAN :
           LET c == CreateStateful([next |-> next_mock_executor_id, executors |-> executors,
                                    panic |-> FALSE], nodes, overflow_checks)
           IN /\ Len(c.executors) <= MaxExecutors
              /\ next_mock_executor_id' = c.next
              /\ executors' = c.executors
              /\ last' = [op |-> "build_fragment", res |-> IF c.panic THEN "Panic" ELSE "Ok"]
    /\ UNCHANGED <<topn_vars, flow_vars, wait_vars, store_vars, cache_vars, actors, fragments,
                   channel_pool, receivers_for_exchange_service, handles, tasks,
                   sender_placeholder, mock_source, graph>>

\* A manager as constructed, or one that has built a Top-N first, which still runs,
\* and has built and dropped fragments ever since until its counter is at u32::MAX.
IdsInit ==
    /\ \/ next_mock_executor_id = <<0, 0>> /\ executors = <<>>
       \/ /\ next_mock_executor_id = U32_MAX
          /\ executors = <<[kind |-> "TopNNode", id |-> <<0, 0>>,
                             keyspace |-> executor_root(<<0, 0>>)]>>
    /\ StreamManagerNew /\ graph = ChainGraph(<<>>, <<"local", "local">>) /\ FlowIdle
    /\ TopNIdle /\ WaitIdle /\ StoreIdle /\ CacheIdle

SpecIds == IdsInit /\ [][BuildExecutors]_vars

IdsTypeOK ==
    /\ next_mock_executor_id \in (0..(HALF - 1)) \X (0..(HALF - 1))
    /\ \A i \in DOMAIN executors : executors[i].kind \in StatefulNodes

\* --------------------------------------------------- executor ids: properties
\* No key lies under both prefixes.
Disjoint(p, q) == ~IsPrefix(p, q) /\ ~IsPrefix(q, p)

\* C26: every stateful executor built by the manager has an id that no other one has
\* and a keyspace disjoint from every other one's, and the three keyspaces of a Top-N
\* are disjoint from each other.
C26_KeyspacesDisjoint ==
    /\ \A i, j \in DOMAIN executors :
           i # j => /\ executors[i].id # executors[j].id
                    /\ Disjoint(executors[i].keyspace, executors[j].keyspace)
    /\ \A i \in DOMAIN executors : \A p, q \in TopNKeyspaces(executors[i].keyspace) :
           p # q => Disjoint(p, q)

\* ------------------------------------------------------- managed states
\* The three ManagedTopNState of the operator with their caches: apply_chunk as it
\* calls them, one call after the other.  top_element is not awaited, so it answers
\* from the cache alone; insert, delete and the pops are awaited and may read the store.

\* total_count as declared to TopNExecutor::new: (0, 0, 0).
\* Faulty variant: one row is declared for every region of the empty keyspace.
DeclaredCount_One == [r \in Regions |-> 1]
DeclaredCount == [r \in Regions |-> 0]

\* The state of the three managed states in the middle of a row of apply_chunk.
Managed(p, c, t, o, panic) == [pending |-> p, cache |-> c, tc |-> t, new_ops |-> o, panic |-> panic]
ManagedNow == Managed(pending, cache, total_count, new_ops, FALSE)

\* The rows of region r in the store, seen through the writes pending in p.
CommittedOf(p, r) == (store[r] \cup {k \in DOMAIN p[r] : p[r][k] = "put"})
                         \ {k \in DOMAIN p[r] : p[r][k] = "del"}

\* Low and Mid are topped by their largest row, High by its smallest.
Nearer(r, a, b) == IF r = "h/" THEN RowLess(a, b) ELSE RowLess(b, a)
TopOf(r, S) == IF r = "h/" THEN MinRow(S) ELSE MaxRow(S)

\* The n rows of S nearest to the top.
TopWindow(r, S, n) == {x \in S : Cardinality({y \in S : Nearer(r, y, x)}) < n}

Capacity == IF cache_size = NoLimit THEN USIZE_MAX ELSE cache_size[1]

\* Faulty variant: an emptied cache is left empty.
Refill_Never(st, r) == st
\* A cache left empty while rows exist is filled again by a range read of at most
\* cache_size rows, which sees the pending writes.
Refill(st, r) ==
    IF st.cache[r] = {} /\ st.tc[r] > 0
    THEN [st EXCEPT !.cache[r] = TopWindow(r, CommittedOf(st.pending, r), Capacity)]
    ELSE st

\* A row enters the cache if the cache holds the whole region or the row lies inside
\* the cached window.
Admit(st, r, k) ==
    \/ Cardinality(st.cache[r]) = st.tc[r]
    \/ \E x \in st.cache[r] : Nearer(r, k, x)

\* ManagedTopNState::insert: the cache is capped at cache_size, the row farthest from
\* the top goes first.
ManagedInsert(st, r, k) ==
    [st EXCEPT !.pending = PendPut(@, r, k),
               !.tc[r] = @ + 1,
               !.cache[r] = TopWindow(r, IF Admit(st, r, k) THEN @ \cup {k} ELSE @, Capacity)]

\* ManagedTopNState::delete.
ManagedDelete(st, r, k) ==
    Refill([st EXCEPT !.pending = PendDel(@, r, k),
                      !.tc[r] = @ - 1,
                      !.cache[r] = @ \ {k}], r)

\* ManagedTopNState::top_element: None or Some(row), from the cache.
top_element(st, r) == IF st.cache[r] = {} THEN NoLimit ELSE Some(TopOf(r, st.cache[r]))

\* The row pop_top_element removes: the top of the cache, or of a range read.
PopTop(st, r) ==
    IF st.cache[r] # {} THEN TopOf(r, st.cache[r]) ELSE TopOf(r, CommittedOf(st.pending, r))

\* The row pop_bottom_element removes from Mid: the smallest row of a cache that holds
\* the whole region, or of a range read.
PopBottom(st, r) ==
    IF Cardinality(st.cache[r]) = st.tc[r] THEN MinRow(st.cache[r])
    ELSE MinRow(CommittedOf(st.pending, r))

Push(st, op, k) == [st EXCEPT !.new_ops = Append(@, <<op, k>>)]
Unwrapped(st) == [st EXCEPT !.panic = TRUE]

\* High gives its top to Mid.
Promote(st) ==
    LET h == PopTop(st, "h/")
    IN ManagedInsert(Push(ManagedDelete(st, "h/", h), "Insert", h), "m/", h)

\* Op::Insert | Op::UpdateInsert
CachedInsertRow(k) ==
    LET s0 == ManagedNow
        ltop == top_element(s0, "l/")
    IN IF s0.tc["l/"] < offset THEN ManagedInsert(s0, "l/", k)
       ELSE IF ltop = NoLimit THEN Unwrapped(s0)
       ELSE
         LET swap == RowLess(k, ltop[1])
             e_mid == IF swap THEN PopTop(s0, "l/") ELSE k
             s1 == IF swap THEN ManagedInsert(ManagedDelete(s0, "l/", e_mid), "l/", k) ELSE s0
             mtop == top_element(s1, "m/")
         IN IF s1.tc["m/"] < NumLimit THEN Push(ManagedInsert(s1, "m/", e_mid), "Insert", e_mid)
            ELSE IF mtop = NoLimit THEN Unwrapped(s1)
            ELSE
              LET swap2 == RowLess(e_mid, mtop[1])
                  e_high == IF swap2 THEN PopTop(s1, "m/") ELSE e_mid
                  s2 == IF swap2
                        THEN ManagedInsert(
                                 Push(Push(ManagedDelete(s1, "m/", e_high), "Delete", e_high),
                                      "Insert", e_mid),
                                 "m/", e_mid)
                        ELSE s1
              IN ManagedInsert(s2, "h/", e_high)

\* Op::Delete | Op::UpdateDelete
CachedDeleteRow(k) ==
    LET s0 == ManagedNow
        mtop == top_element(s0, "m/")
        ltop == top_element(s0, "l/")
    IN IF s0.tc["m/"] = NumLimit /\ mtop = NoLimit THEN Unwrapped(s0)
       ELSE IF s0.tc["m/"] = NumLimit /\ RowLess(mtop[1], k) THEN ManagedDelete(s0, "h/", k)
       ELSE IF s0.tc["l/"] = offset /\ ltop = NoLimit THEN Unwrapped(s0)
       ELSE IF s0.tc["l/"] = offset /\ RowLess(ltop[1], k)
       THEN LET s1 == Push(ManagedDelete(s0, "m/", k), MidDeleteOp, k)
            IN IF s1.tc["h/"] > 0 THEN Promote(s1) ELSE s1
       ELSE LET s1 == ManagedDelete(s0, "l/", k)
                m == PopBottom(s1, "m/")
                s2 == IF s1.tc["m/"] > 0
                      THEN ManagedInsert(Push(ManagedDelete(s1, "m/", m), MidDemoteOp, m), "l/", m)
                      ELSE s1
            IN IF s2.tc["m/"] = NumLimit - 1 /\ s2.tc["h/"] > 0 THEN Promote(s2) ELSE s2

CachedRow(in) == IF in[1] \in InsertOps THEN CachedInsertRow(in[2]) ELSE CachedDeleteRow(in[2])

\* One iteration of the row loop of apply_chunk on the managed states.
CachedApplyRow(in) ==
    /\ LET r == CachedRow(in)
       IN /\ low' = CommittedOf(r.pending, "l/")
          /\ mid' = CommittedOf(r.pending, "m/")
          /\ high' = CommittedOf(r.pending, "h/")
          /\ pending' = r.pending
          /\ cache' = r.cache
          /\ total_count' = r.tc
          /\ new_ops' = r.new_ops
          /\ pc' = IF r.panic THEN "panicked" ELSE "rows"
    /\ live' = LiveAfter(in, live)
    /\ row_idx' = row_idx + 1
    /\ UNCHANGED <<mgr_vars, flow_vars, wait_vars, store_vars, id_vars, cache_size, offset,
                   limit, first_execution, store, written, fills, source, input, applied,
                   cur_epoch>>

CachedProcessRow ==
    /\ pc = "rows"
    /\ \/ /\ source = "Any"
          /\ row_idx < MaxChunkLen
          /\ \E in \in InputRows : ValidRow(in, live) /\ CachedApplyRow(in)
          /\ UNCHANGED chunk
       \/ /\ source = "MockSource"
          /\ chunk # <<>>
          /\ CachedApplyRow(Head(chunk))
          /\ chunk' = Tail(chunk)

\* TopNExecutor::new on an empty keyspace, with a cache that cannot hold Low: the
\* test's cache_size 2 for its offset 3, every cache_size below the offset else.
CacheInit ==
    /\ Init
    /\ \/ /\ source = "Any"
          /\ cache_size \in {Some(n) : n \in 1..(offset - 1)}
       \/ /\ source = "MockSource"
          /\ cache_size = Some(2)
    /\ cache = [r \in Regions |-> {}]
    /\ total_count = DeclaredCount
    /\ MgrIdle /\ WaitIdle /\ StoreIdle /\ IdsIdle

CacheNext ==
    \/ ReceiveChunk
    \/ CachedProcessRow
    \/ EmitChunk
    \/ ReceiveBarrier
    \/ FlushHigh
    \/ FlushMid
    \/ FlushLow
    \/ ForwardBarrier

SpecCache == CacheInit /\ [][CacheNext]_vars

CacheTypeOK ==
    /\ \A r \in Regions : cache[r] \subseteq Content(r) /\ Cardinality(cache[r]) <= Capacity
    /\ \A r \in Regions : total_count[r] \in Nat

\* ------------------------------------------------ managed states: properties
\* C28: the total_count of every region, which decides every size-dependent branch,
\* is the number of rows the region holds (in the store and the pending writes),
\* whatever part of them is in the cache.
C28_TotalCountIsTrue ==
    \A r \in Regions :
        /\ total_count[r] = Cardinality(CommittedOf(pending, r))
        /\ total_count[r] = Cardinality(Content(r))

\* Low holds more rows than its cache, in the middle of a chunk.
C28_Witness ==
    pc = "rows" /\ row_idx >= 1 /\ Cardinality(cache["l/"]) < total_count["l/"]

\* The rows the row loop may be given next.
NextRows ==
    IF source = "Any" THEN {in \in InputRows : ValidRow(in, live) /\ row_idx < MaxChunkLen}
    ELSE IF chunk = <<>> THEN {} ELSE {Head(chunk)}

====
